---- MODULE Spec2Model ----
(***************************************************************************)
(* A model of biomedgps: the paged record fetcher                          *)
(* (RecordResponse::get_records, src/src/model/core.rs), the list and      *)
(* graph endpoints that call it (src/src/api/route.rs), the filter         *)
(* compiler (query::sql_builder) and the graph store (model::graph).       *)
(*                                                                         *)
(* SQL text is modelled as a sequence of tokens; a caller-supplied string  *)
(* is a sequence of tokens too, so a value can carry quotes, parentheses   *)
(* and keywords of its own.  PostgreSQL is modelled by an evaluator of     *)
(* that token text against the rows of a table.                            *)
(***************************************************************************)
EXTENDS Integers, Sequences, FiniteSets, TLC

\* ------------------------------------------------------------------ bounds

\* Width of the machine word standing for u64 (and, signed, for
\* PostgreSQL's bigint): arithmetic is done modulo 2^WordBits.  The word
\* is wide enough for the numbers the code writes down (the default
\* page_size 10) and the small pages and sizes of the requests to stand for
\* themselves: their products stay far below BigintMax, as they do at 64
\* bits, while a number at a small distance below Modulus or Modulus / 2
\* stands for the number at that distance below 2^64 or 2^63.
WordBits == 12

\* Number of distinct row ids a table may hold.
MaxRows == 3

\* Largest number of children of one filter group.
MaxItems == 2

\* Number of distinct node ids.
MaxIds == 2

\* Largest number of nodes in one merge_nodes call.
MaxNodes == 2

\* Largest number of edges in one merge_edges call.
MaxEdges == 1

\* Largest number of edges the store is given room for.
MaxStored == 2

\* Largest number of nodes and edges of a store a snapshot is taken of.
MaxLive == 2

\* ----------------------------------------------------------- machine words

Modulus == 2 ^ WordBits

U64 == 0 .. (Modulus - 1)

\* i64::MAX at the model's width: the largest LIMIT / OFFSET bigint accepts.
BigintMax == 2 ^ (WordBits - 1) - 1

\* Option<u64>::None
None == -1

\* ------------------------------------------------------------------- rows

\* Entity rows: the columns id and label.
Columns == {"id", "label"}

IdOf(i) == "e" \o ToString(i)

LabelOf(i) == IF i % 2 = 1 THEN "Disease" ELSE "Gene"

Row(i) == [id |-> IdOf(i), label |-> LabelOf(i)]

RowIds == 1 .. MaxRows

\* A table's content: the set of row numbers present.
Tables == SUBSET RowIds

\* ---------------------------------------------------------- the filter AST

\* A caller-supplied string is a sequence of tokens.  This one closes the
\* quote and the parenthesis it is put in and opens new ones.
Hostile == <<"x", "'", ")", "OR", "(", "'", "1", "'", "=", "'", "1">>

\* QueryItem {operator, field, value}
QueryItemOf(f, v) == [operator |-> "=", field |-> f, value |-> v]

\* ComposeQueryItem {operator, items}
AndOf(a, b) == [operator |-> "and", items |-> <<a, b>>]

OrOf(a, b) == [operator |-> "or", items |-> <<a, b>>]

IsComposeQueryItem(q) == "items" \in DOMAIN q

\* The groups whose children are in S.
ComposeOver(S) ==
    [operator : {"and", "or"},
     items : UNION { [1 .. n -> S] : n \in 1 .. MaxItems }]

\* The filter trees given to the compiler: leaves, groups of leaves, groups
\* of groups and leaves.
Leaves ==
    { QueryItemOf("id", <<"e1">>), QueryItemOf("label", <<"Disease">>),
      QueryItemOf("label", <<"Gene">>), QueryItemOf("id", Hostile) }

Trees == Leaves \cup ComposeOver(Leaves) \cup ComposeOver(Leaves \cup ComposeOver(Leaves))

\* ------------------------------------------------------------- the compiler

\* QueryItem::format: field, operator and the value between quotes.
QueryItem_format(item) ==
    <<item.field, item.operator, "'">> \o item.value \o <<"'">>

Keyword(op) == IF op = "and" THEN "AND" ELSE "OR"

RECURSIVE format(_)
RECURSIVE JoinItems(_, _, _)

\* Children i..Len(items), each in parentheses, joined by the keyword.
JoinItems(items, kw, i) ==
    IF i > Len(items) THEN <<>>
    ELSE (IF i > 1 THEN <<kw>> ELSE <<>>)
         \o <<"(">> \o format(items[i]) \o <<")">>
         \o JoinItems(items, kw, i + 1)

\* ComposeQueryItem::format / QueryItem::format
format(q) ==
    IF IsComposeQueryItem(q)
    THEN IF Len(q.items) = 1
         THEN format(q.items[1])
         ELSE JoinItems(q.items, Keyword(q.operator), 1)
    ELSE QueryItem_format(q)

\* ------------------------------------------------- PostgreSQL's WHERE clause

Failed == [ok |-> FALSE, val |-> FALSE, pos |-> 0]

NoOperand == [ok |-> FALSE, val |-> <<>>, pos |-> 0]

\* The first closing quote at or after position i, or 0.
RECURSIVE ClosingQuote(_, _)
ClosingQuote(s, i) ==
    IF i > Len(s) THEN 0
    ELSE IF s[i] = "'" THEN i
    ELSE ClosingQuote(s, i + 1)

\* The string literal opened at position i and closed at position j.
Literal(s, i, j) ==
    IF j = 0 THEN NoOperand
    ELSE [ok |-> TRUE, val |-> SubSeq(s, i + 1, j - 1), pos |-> j + 1]

\* An operand at position i: a string literal, a number or a column.
Operand(s, i, row) ==
    IF i > Len(s) THEN NoOperand
    ELSE IF s[i] = "'" THEN Literal(s, i, ClosingQuote(s, i + 1))
    ELSE IF s[i] \in {"0", "1"} THEN [ok |-> TRUE, val |-> <<s[i]>>, pos |-> i + 1]
    ELSE IF s[i] \in Columns THEN [ok |-> TRUE, val |-> <<row[s[i]]>>, pos |-> i + 1]
    ELSE NoOperand

RECURSIVE Expr(_, _, _)
RECURSIVE Term(_, _, _)

\* The closing parenthesis after the expression e.
Closed(s, e) ==
    IF e.ok /\ e.pos <= Len(s) /\ s[e.pos] = ")"
    THEN [ok |-> TRUE, val |-> e.val, pos |-> e.pos + 1]
    ELSE Failed

\* a = b
Equal(a, b) ==
    IF b.ok THEN [ok |-> TRUE, val |-> (a.val = b.val), pos |-> b.pos] ELSE Failed

\* The comparison whose left operand is a.
Comparison(s, a, row) ==
    IF a.ok /\ a.pos <= Len(s) /\ s[a.pos] = "="
    THEN Equal(a, Operand(s, a.pos + 1, row))
    ELSE Failed

\* ( expr ) or operand = operand
Factor(s, i, row) ==
    IF i > Len(s) THEN Failed
    ELSE IF s[i] = "(" THEN Closed(s, Expr(s, i + 1, row))
    ELSE Comparison(s, Operand(s, i, row), row)

And(f, t) ==
    IF t.ok THEN [ok |-> TRUE, val |-> (f.val /\ t.val), pos |-> t.pos] ELSE Failed

Or(t, e) ==
    IF e.ok THEN [ok |-> TRUE, val |-> (t.val \/ e.val), pos |-> e.pos] ELSE Failed

\* What follows the factor f: AND and a term, or nothing.
AfterFactor(s, f, row) ==
    IF ~f.ok THEN Failed
    ELSE IF f.pos <= Len(s) /\ s[f.pos] = "AND" THEN And(f, Term(s, f.pos + 1, row))
    ELSE f

\* What follows the term t: OR and an expression, or nothing.
AfterTerm(s, t, row) ==
    IF ~t.ok THEN Failed
    ELSE IF t.pos <= Len(s) /\ s[t.pos] = "OR" THEN Or(t, Expr(s, t.pos + 1, row))
    ELSE t

\* factor AND factor ...
Term(s, i, row) == AfterFactor(s, Factor(s, i, row), row)

\* term OR term ...
Expr(s, i, row) == AfterTerm(s, Term(s, i, row), row)

\* The expression e is the whole text.
Whole(s, e) == IF e.ok /\ e.pos = Len(s) + 1 THEN e ELSE Failed

\* The text as a WHERE clause for one row.
Where(s, row) == Whole(s, Expr(s, 1, row))

\* Whether PostgreSQL accepts the text (its syntax and its column names).
Accepts(s) == Where(s, Row(1)).ok

\* The row numbers of the table the text selects.
Matching(s, table) == {i \in table : Where(s, Row(i)).val}

\* ------------------------------------------------------------ request inputs

DefaultPage == 1

DefaultPageSize == 10

\* The page numbers a caller sends: absent, 0, the first pages, the page
\* whose offset wraps to 0 with page_size 2, and u64::MAX.
PageInputs == {None, 0, 1, 2, 3, Modulus \div 2 + 1, Modulus - 1}

\* The page sizes a caller sends.
SizeInputs == {None, 0, 1, 2, 3, Modulus - 1}

\* JSON values that are filter trees.
WellFormedJson ==
    { QueryItemOf("id", <<"e1">>),
      QueryItemOf("label", <<"Disease">>),
      QueryItemOf("id", <<"NOT-FOUND">>),
      QueryItemOf("bogus", <<"e1">>),
      QueryItemOf("id", Hostile),
      AndOf(QueryItemOf("id", <<"e1">>), QueryItemOf("label", <<"Disease">>)),
      AndOf(QueryItemOf("id", <<"NOT-FOUND">>), QueryItemOf("label", <<"NOT-FOUND">>)),
      OrOf(QueryItemOf("id", <<"e1">>), QueryItemOf("label", <<"Gene">>)),
      OrOf(AndOf(QueryItemOf("id", <<"e1">>), QueryItemOf("bogus", <<"e1">>)),
           QueryItemOf("label", <<"Gene">>)) }

\* JSON values that are no filter tree: a leaf without value, a group whose
\* child has no field.
IllFormedJson ==
    { [operator |-> "=", field |-> "id"],
      [operator |-> "and",
       items |-> <<QueryItemOf("id", <<"e1">>), [operator |-> "=", value |-> <<"e1">>]>>] }

\* query_str: Option<String>.  "garbage" is a string that is no JSON.
QueryStrings ==
    { [kind |-> "absent"], [kind |-> "empty"], [kind |-> "garbage"] }
    \cup { [kind |-> "json", json |-> j] : j \in WellFormedJson \cup IllFormedJson }

\* serde_json::from_str::<ComposeQuery>: the shape of the JSON value.
RECURSIVE IsComposeQuery(_)
IsComposeQuery(j) ==
    \/ DOMAIN j = {"operator", "field", "value"}
    \/ /\ DOMAIN j = {"operator", "items"}
       /\ j.operator \in {"and", "or"}
       /\ \A i \in 1 .. Len(j.items) : IsComposeQuery(j.items[i])

from_str(qs) == qs.kind = "json" /\ IsComposeQuery(qs.json)

\* PaginationQuery::new: page >= 1 and page_size >= 1 when given.
PaginationQuery_new(p, ps, qs) == p # 0 /\ ps # 0

NoQuery == [kind |-> "none"]

SomeQuery(q) == [kind |-> "some", q |-> q]

\* A parse that takes a string it cannot read for no filter.
ParseQueryStr_Lenient(qs) ==
    IF qs.kind = "json" /\ from_str(qs)
    THEN [err |-> FALSE, query |-> SomeQuery(qs.json)]
    ELSE [err |-> FALSE, query |-> NoQuery]

\* The handlers' parse of query_str: absent or empty is no filter, a parse
\* failure is an error.
ParseQueryStr(qs) ==
    IF qs.kind \in {"absent", "empty"}
    THEN [err |-> FALSE, query |-> NoQuery]
    ELSE IF from_str(qs)
    THEN [err |-> FALSE, query |-> SomeQuery(qs.json)]
    ELSE [err |-> TRUE, query |-> NoQuery]

\* --------------------------------------------------------------- get_records

\* A default predicate that selects nothing.
DefaultPredicate_False == <<"1", "=", "0">>

\* 1=1
DefaultPredicate == <<"1", "=", "1">>

\* query_str of get_records: the formatted filter, or 1=1 when it is empty.
OrDefault(s) == IF s = <<>> THEN DefaultPredicate ELSE s

QueryStr(query) == OrDefault(IF query.kind = "some" THEN format(query.q) ELSE <<>>)

\* pagination_str of get_records.  Unsigned arithmetic that leaves U64
\* panics in a build with overflow checks and wraps in one without.
Pagination(p, ps, checks) ==
    IF p = None /\ ps = None
    THEN [paged |-> FALSE, panic |-> FALSE, limit |-> 0, offset |-> 0]
    ELSE LET pg == IF p = None THEN DefaultPage ELSE p
             sz == IF ps = None THEN DefaultPageSize ELSE ps
             overflow == pg = 0 \/ (pg - 1) * sz >= Modulus
         IN [paged |-> TRUE,
             panic |-> overflow /\ checks,
             limit |-> sz,
             offset |-> (((pg - 1) % Modulus) * sz) % Modulus]

NoSql == [kind |-> "none"]

\* SELECT * FROM table WHERE query_str order_by_str pagination_str
SelectSql(table_name, where, order_by, pag) ==
    [kind |-> "select", table_name |-> table_name, where |-> where,
     order_by |-> order_by, paged |-> pag.paged,
     limit |-> pag.limit, offset |-> pag.offset, binds |-> <<>>]

\* A count that forgets the WHERE clause of the SELECT.
CountSql_NoWhere(select) ==
    [kind |-> "count", table_name |-> select.table_name, where |-> <<"1", "=", "1">>,
     order_by |-> "", paged |-> FALSE, limit |-> 0, offset |-> 0, binds |-> <<>>]

\* SELECT COUNT(*) FROM table WHERE query_str
CountSql(select) ==
    [kind |-> "count", table_name |-> select.table_name, where |-> select.where,
     order_by |-> "", paged |-> FALSE, limit |-> 0, offset |-> 0, binds |-> <<>>]

\* ---------------------------------------------------------------- PostgreSQL

\* The rows numbered in S as a sequence, ascending.
RECURSIVE Ascending(_)
Ascending(S) ==
    IF S = {} THEN <<>>
    ELSE LET m == CHOOSE x \in S : \A y \in S : x <= y
         IN <<m>> \o Ascending(S \ {m})

Reverse(s) == [i \in 1 .. Len(s) |-> s[Len(s) + 1 - i]]

Ordered(S, order_by) ==
    IF order_by = "created_time DESC" THEN Reverse(Ascending(S)) ELSE Ascending(S)

\* LIMIT limit OFFSET offset of a sequence.
Window(s, limit, offset) ==
    SubSeq(s, offset + 1, IF offset + limit < Len(s) THEN offset + limit ELSE Len(s))

\* Whether PostgreSQL runs the statement: the WHERE text parses over the
\* table's columns and LIMIT / OFFSET fit bigint.
Runs(q) ==
    /\ Accepts(q.where)
    /\ q.paged => (q.limit <= BigintMax /\ q.offset <= BigintMax)

\* The row numbers a SELECT returns, in order.
Rows(q, t) ==
    LET all == Ordered(Matching(q.where, t), q.order_by)
    IN IF q.paged THEN Window(all, q.limit, q.offset) ELSE all

\* ------------------------------------------------------------ the Graph Store

NodeIds == {"n" \o ToString(i) : i \in 1 .. MaxIds}

\* Node {id, label}: the id is the key, the label stands for the attributes.
NodeLabels == {"Disease", "Gene"}

Nodes == [id : NodeIds, label : NodeLabels]

\* The lists a merge_nodes call may be given.
NodeLists == UNION { [1 .. n -> Nodes] : n \in 1 .. MaxNodes }

\* The position of the node with this id in the store, or 0.
RECURSIVE PositionOf(_, _, _)
PositionOf(store, id, i) ==
    IF i > Len(store) THEN 0
    ELSE IF store[i].id = id THEN i
    ELSE PositionOf(store, id, i + 1)

\* The store with every node of the list appended, whatever it holds.
merge_nodes_Append(store, list) == store \o list

\* One node merged without a look at the ids the store holds.
MergeNode_Add(store, node, at) == Append(store, node)

\* One node merged: it replaces the node of its id, or is added.
MergeNode(store, node, at) ==
    IF at = 0 THEN Append(store, node)
    ELSE [store EXCEPT ![at] = node]

\* Graph::merge_nodes: the nodes of the list merged in order.
RECURSIVE merge_nodes(_, _)
merge_nodes(store, list) ==
    IF list = <<>> THEN store
    ELSE merge_nodes(MergeNode(store, Head(list), PositionOf(store, Head(list).id, 1)),
                     Tail(list))

\* No merge_nodes call has contained the id.
Unwritten == "unwritten"

\* The attributes the list gives last for this id, or else what was known.
RECURSIVE LastGiven(_, _, _)
LastGiven(list, id, known) ==
    IF list = <<>> THEN known
    ELSE LastGiven(Tail(list), id, IF Head(list).id = id THEN Head(list).label ELSE known)

\* Edge {source_id, target_id, relation_type, weight}: the first three are
\* the key, the weight stands for the attributes.
RelationTypes == {"treats", "causes"}

EdgeWeights == {1, 2}

\* No merge_edges call has contained the triple.
NoWeight == 0

Edges == [source_id : NodeIds, target_id : NodeIds,
          relation_type : RelationTypes, weight : EdgeWeights]

Triples == NodeIds \X NodeIds \X RelationTypes

\* The lists a merge_edges call may be given.
EdgeLists == UNION { [1 .. n -> Edges] : n \in 1 .. MaxEdges }

\* An identity that leaves the relation type out.
Key_Endpoints(e) == <<e.source_id, e.target_id>>

\* The identity of an edge.
Key(e) == <<e.source_id, e.target_id, e.relation_type>>

\* One edge merged: it replaces the edge of its identity, or is added.
MergeEdge(store, e) == {x \in store : Key(x) # Key(e)} \cup {e}

\* Graph::merge_edges: the edges of the list merged in order.
RECURSIVE merge_edges(_, _)
merge_edges(store, list) ==
    IF list = <<>> THEN store
    ELSE merge_edges(MergeEdge(store, Head(list)), Tail(list))

\* The weight the list gives last for this triple, or else what was known.
RECURSIVE LastGivenEdge(_, _, _)
LastGivenEdge(list, t, known) ==
    IF list = <<>> THEN known
    ELSE LastGivenEdge(Tail(list), t,
            IF <<Head(list).source_id, Head(list).target_id, Head(list).relation_type>> = t
            THEN Head(list).weight ELSE known)

\* The list gives a triple a weight other than the one known for it.
Conflicts(list, known) ==
    \E k \in 1 .. Len(list) :
        LET t == <<list[k].source_id, list[k].target_id, list[k].relation_type>>
        IN known[t] # NoWeight /\ known[t] # list[k].weight

\* No snapshot has been taken.
NoSnapshot == [kind |-> "none"]

\* A Graph that reads the live store instead of holding a copy of it.
to_owned_Alias(ns, es) == [kind |-> "graph", shared |-> TRUE, nodes |-> ns, edges |-> es]

\* graph.to_owned(): a Graph of its own, holding a copy of the nodes and edges.
to_owned(ns, es) == [kind |-> "graph", shared |-> FALSE, nodes |-> ns, edges |-> es]

\* --------------------------------------------------------------------- state

VARIABLES
    table,            \* the content of the table the request reads
    overflow_checks,  \* whether the build panics on integer overflow
    pc,               \* where the request is: idle, select, count, assemble, done
    req,              \* the request: endpoint, page, page_size, query_str
    query,            \* Option<ComposeQuery> after the parse
    sql,              \* the statement get_records is about to run
    queries,          \* the statements issued to storage by this request
    failed,           \* those of them storage did not run
    records,          \* the rows the SELECT returned
    resp,             \* the response
    tree,             \* the filter given to the compiler
    text,             \* its compiled text
    nodes,            \* the nodes of the Graph Store, in insertion order
    merged,           \* the list given to the last merge_nodes call
    before,           \* the nodes of the store before that call
    written,          \* per id, the attributes most recently given for it
    edges,            \* the edges of the Graph Store
    edge_written,     \* per triple, the weight most recently given for it
    conflict,         \* the last merge_edges call changed a weight
    relations,        \* the rows of the relation table
    embeddings,       \* the rows of the similarity source
    snap,             \* the Graph a snapshot returned
    taken,            \* the nodes and edges of the store when it was taken
    touched,          \* the store was merged into after the snapshot
    storage,           \* per table a write endpoint writes, its rows and its last id
    phase,            \* the phase of an assembly session
    sessions,         \* per concurrent graph request, where it is and its Graph
    conn,             \* per client of the pool, what its query is doing
    imported,         \* per embedding table, the rows of the files imported since it was dropped
    relation_embeddings   \* the rows of biomedgps_relation_embedding

fetchVars == <<table, overflow_checks, pc, req, query, sql, queries, failed, records, resp>>

compilerVars == <<tree, text>>

storeVars == <<nodes, merged, before, written, edges, edge_written, conflict>>

snapshotVars == <<snap, taken, touched>>

serverVars == <<storage, phase, sessions, conn, imported, relation_embeddings>>

graphVars == <<relations, embeddings, snapshotVars, serverVars>>

vars == <<fetchVars, compilerVars, storeVars, graphVars>>

NoReq == [ep |-> "none"]

NoResp == [kind |-> "none"]

BadRequest_Swallowed(err) == [kind |-> "graph", nodes |-> <<>>, edges |-> {}]

\* bad_request with the handler's message.
BadRequest(err) == [kind |-> "bad_request", err |-> err]

\* "Failed to parse query string: ..."
ParseError == "Failed to parse query string"

\* "Failed to fetch ...: ..."
QueryError == "Failed to fetch"

Panic == [kind |-> "panic"]

\* RecordResponse {records, total, page, page_size}
RecordResponse(recs, total, p, ps) ==
    [kind |-> "ok", records |-> recs, total |-> total,
     page |-> IF p = None THEN 0 ELSE p,
     page_size |-> IF ps = None THEN 0 ELSE ps]

GraphResponse(recs) == [kind |-> "graph", edges |-> recs]

CompilerIdle == tree = NoQuery /\ text = <<>>

\* No request is in progress.
FetchIdle ==
    /\ pc = "idle"
    /\ req = NoReq
    /\ query = NoQuery
    /\ sql = NoSql
    /\ queries = <<>>
    /\ failed = <<>>
    /\ records = <<>>
    /\ resp = NoResp

\* Graph::new(): a store without nodes.
StoreIdle ==
    /\ nodes = <<>>
    /\ merged = <<>>
    /\ before = <<>>
    /\ written = [id \in NodeIds |-> Unwritten]
    /\ edges = {}
    /\ edge_written = [t \in Triples |-> NoWeight]
    /\ conflict = FALSE

\* The payloads a row of a written table holds.
Payloads == {"v1", "v2"}

\* The tables the write endpoints write.
WriteTables == {"biomedgps_knowledge_curation", "biomedgps_subgraph"}

\* The tables the imports write.
EmbeddingTables == {"biomedgps_entity_embedding", "biomedgps_relation_embedding"}

\* Number of ids a written table gives out.
MaxWritten == 2

\* A table without rows that has given out no id.
EmptyTable == [last |-> 0, rows |-> <<>>]

\* The concurrent graph requests.
MaxRequests == 2

Requests == 1 .. MaxRequests

\* A request that has not started: no ids, no Graph, no response.
NoSession ==
    [pc |-> "idle", ids |-> <<>>, nodes |-> <<>>, edges |-> {}, resp |-> [kind |-> "none"]]

\* The clients that issue queries through the pool.
MaxClients == 6

Clients == 1 .. MaxClients

\* No session, no concurrent request and no query is in progress.
SessionsIdle ==
    /\ phase = "Empty"
    /\ sessions = [r \in Requests |-> NoSession]
    /\ conn = [c \in Clients |-> "idle"]

\* Nothing was imported.
ImportsIdle ==
    /\ imported = [t \in EmbeddingTables |-> {}]
    /\ relation_embeddings = {}

\* The written tables are empty, and nothing else is in progress.
ServerIdle ==
    /\ storage = [t \in WriteTables |-> EmptyTable]
    /\ SessionsIdle
    /\ ImportsIdle

\* The tables the graph operations read are empty.
SnapshotIdle ==
    /\ snap = NoSnapshot
    /\ taken = NoSnapshot
    /\ touched = FALSE

GraphIdle ==
    /\ relations = {}
    /\ embeddings = {}
    /\ SnapshotIdle
    /\ ServerIdle

InitFetch ==
    /\ table \in Tables
    /\ overflow_checks \in BOOLEAN
    /\ FetchIdle
    /\ CompilerIdle
    /\ StoreIdle
    /\ GraphIdle

\* The handler returns before any storage call.
Return(r) ==
    /\ pc' = "done"
    /\ resp' = r
    /\ sql' = NoSql
    /\ UNCHANGED <<queries, failed, records>>

\* get_records up to its first await: the statement is built, or the
\* pagination arithmetic panics.
get_records(table_name, q, p, ps, order_by) ==
    LET pag == Pagination(p, ps, overflow_checks)
    IN IF pag.panic
       THEN Return(Panic)
       ELSE /\ pc' = "select"
            /\ sql' = SelectSql(table_name, QueryStr(q), order_by, pag)
            /\ UNCHANGED <<queries, failed, records, resp>>

\* A list endpoint: (PaginationQuery::new,) the parse of query_str, get_records.
ListEndpoint(name, validates, table_name, order_by) ==
    /\ pc = "idle"
    /\ \E p \in PageInputs, ps \in SizeInputs, qs \in QueryStrings :
        LET parsed == ParseQueryStr(qs)
        IN /\ req' = [ep |-> name, page |-> p, page_size |-> ps, query_str |-> qs]
           /\ IF validates /\ ~PaginationQuery_new(p, ps, qs)
              THEN query' = NoQuery /\ Return(BadRequest(ParseError))
              ELSE IF parsed.err
              THEN query' = NoQuery /\ Return(BadRequest(ParseError))
              ELSE /\ query' = parsed.query
                   /\ get_records(table_name, parsed.query, p, ps, order_by)
    /\ UNCHANGED <<table, overflow_checks, compilerVars, storeVars, graphVars>>

fetch_entities == ListEndpoint("fetch_entities", FALSE, "biomedgps_entity", "id ASC")

fetch_curated_knowledges ==
    ListEndpoint("fetch_curated_knowledges", TRUE, "biomedgps_knowledge_curation", "id ASC")

fetch_relations == ListEndpoint("fetch_relations", TRUE, "biomedgps_relation", "id ASC")

fetch_entity2d == ListEndpoint("fetch_entity2d", TRUE, "biomedgps_entity2d", "embedding_id ASC")

fetch_subgraphs == ListEndpoint("fetch_subgraphs", TRUE, "biomedgps_subgraph", "created_time DESC")

\* A graph endpoint up to its call into the Graph: validation, the parse of
\* query_str, Graph::new().
GraphEndpoint(name, pages, sizes) ==
    /\ pc = "idle"
    /\ \E p \in pages, ps \in sizes, qs \in QueryStrings :
        LET parsed == ParseQueryStr(qs)
        IN /\ req' = [ep |-> name, page |-> p, page_size |-> ps, query_str |-> qs]
           /\ IF ~PaginationQuery_new(p, ps, qs)
              THEN query' = NoQuery /\ Return(BadRequest(ParseError))
              ELSE IF parsed.err
              THEN query' = NoQuery /\ Return(BadRequest(ParseError))
              ELSE /\ query' = parsed.query
                   /\ pc' = "assemble"
                   /\ UNCHANGED <<sql, queries, failed, records, resp>>
    /\ UNCHANGED <<table, overflow_checks, compilerVars, storeVars, graphVars>>

fetch_one_step_linked_nodes ==
    GraphEndpoint("fetch_one_step_linked_nodes", PageInputs, SizeInputs)

\* The node_id values a caller sends: the entity ids and a token that is none.
NodeIdInputs == {IdOf(i) : i \in RowIds} \cup {"bad id"}

\* The topk values a caller sends: absent, 0, small ones, and u64::MAX.
TopkInputs == {None, 0, 1, 2, Modulus - 1}

\* SimilarityNodeQuery::new: node_id is an entity id, topk is positive.
SimilarityNodeQuery_new(node_id, qs, topk) == node_id # "bad id" /\ topk # 0

TopkArg_Dropped(topk) == None

\* The topk the handler hands to the Graph: the caller's.
TopkArg(topk) == topk

\* The similarity endpoint up to its call into the Graph: validation, the
\* parse of query_str, Graph::new().
fetch_similarity_nodes ==
    /\ pc = "idle"
    /\ \E node_id \in NodeIdInputs, topk \in TopkInputs, qs \in QueryStrings :
        LET parsed == ParseQueryStr(qs)
        IN /\ req' = [ep |-> "fetch_similarity_nodes", page |-> None,
                      page_size |-> None, query_str |-> qs,
                      node_id |-> node_id, topk |-> topk]
           /\ IF ~SimilarityNodeQuery_new(node_id, qs, topk)
              THEN query' = NoQuery /\ Return(BadRequest(ParseError))
              ELSE IF parsed.err
              THEN query' = NoQuery /\ Return(BadRequest(ParseError))
              ELSE /\ query' = parsed.query
                   /\ pc' = "assemble"
                   /\ UNCHANGED <<sql, queries, failed, records, resp>>
    /\ UNCHANGED <<table, overflow_checks, compilerVars, storeVars, graphVars>>

\* The first await of get_records: fetch_all of the SELECT.  The statement
\* is issued once; storage runs it, rejects it, or fails.
FetchAll ==
    /\ pc = "select"
    /\ queries' = Append(queries, sql)
    /\ \E up \in BOOLEAN :
        IF up /\ Runs(sql)
        THEN /\ records' = Rows(sql, table)
             /\ sql' = CountSql(sql)
             /\ pc' = "count"
             /\ UNCHANGED <<resp, failed>>
        ELSE /\ resp' = BadRequest(QueryError)
             /\ failed' = Append(failed, sql)
             /\ sql' = NoSql
             /\ pc' = "done"
             /\ UNCHANGED records
    /\ UNCHANGED <<table, overflow_checks, req, query, compilerVars, storeVars, graphVars>>

\* The second await of get_records: fetch_one of the COUNT, then the response.
FetchOne ==
    /\ pc = "count"
    /\ queries' = Append(queries, sql)
    /\ \E up \in BOOLEAN :
        IF up /\ Runs(sql)
        THEN /\ resp' = RecordResponse(records, Cardinality(Matching(sql.where, table)),
                                       req.page, req.page_size)
             /\ UNCHANGED failed
        ELSE /\ resp' = BadRequest(QueryError)
             /\ failed' = Append(failed, sql)
    /\ sql' = NoSql
    /\ pc' = "done"
    /\ UNCHANGED <<table, overflow_checks, req, query, records, compilerVars, storeVars, graphVars>>

\* The Graph operation of a graph endpoint: it reads storage with the
\* compiled filter and returns the graph, or fails.
Assemble ==
    /\ pc = "assemble"
    /\ LET q == SelectSql("biomedgps_relation", QueryStr(query), "",
                          Pagination(None, None, overflow_checks))
       IN /\ queries' = Append(queries, q)
          /\ \E up \in BOOLEAN :
              IF up /\ Runs(q)
              THEN /\ records' = Rows(q, table)
                   /\ resp' = GraphResponse(Rows(q, table))
                   /\ UNCHANGED failed
              ELSE /\ resp' = BadRequest(QueryError)
                   /\ failed' = Append(failed, q)
                   /\ UNCHANGED records
    /\ pc' = "done"
    /\ UNCHANGED <<table, overflow_checks, req, query, sql, compilerVars, storeVars, graphVars>>

\* The response is sent; the next request starts from nothing.
Respond ==
    /\ pc = "done"
    /\ pc' = "idle"
    /\ req' = NoReq
    /\ query' = NoQuery
    /\ sql' = NoSql
    /\ queries' = <<>>
    /\ failed' = <<>>
    /\ records' = <<>>
    /\ resp' = NoResp
    /\ UNCHANGED <<table, overflow_checks, compilerVars, storeVars, graphVars>>

NextFetch ==
    \/ fetch_entities
    \/ fetch_curated_knowledges
    \/ fetch_relations
    \/ fetch_entity2d
    \/ fetch_subgraphs
    \/ fetch_one_step_linked_nodes
    \/ fetch_similarity_nodes
    \/ FetchAll
    \/ FetchOne
    \/ Assemble
    \/ Respond

SpecFetch == InitFetch /\ [][NextFetch]_vars

\* ------------------------------------------------------- the compiler alone

InitCompile ==
    /\ table = RowIds
    /\ overflow_checks = FALSE
    /\ FetchIdle
    /\ CompilerIdle
    /\ StoreIdle
    /\ GraphIdle

\* A filter tree is handed to the compiler.
Submit ==
    /\ text = <<>>
    /\ tree = NoQuery
    /\ \E t \in Trees : tree' = SomeQuery(t)
    /\ UNCHANGED <<text, fetchVars, storeVars, graphVars>>

\* query.format()
Compile ==
    /\ tree # NoQuery
    /\ text = <<>>
    /\ text' = format(tree.q)
    /\ UNCHANGED <<tree, fetchVars, storeVars, graphVars>>

\* The compiled text is dropped with its tree.
Discard ==
    /\ text # <<>>
    /\ tree' = NoQuery
    /\ text' = <<>>
    /\ UNCHANGED <<fetchVars, storeVars, graphVars>>

NextCompile == Submit \/ Compile \/ Discard

SpecCompile == InitCompile /\ [][NextCompile]_vars

\* ------------------------------------------------------ the Graph Store alone

InitStore ==
    /\ table = {}
    /\ overflow_checks = FALSE
    /\ FetchIdle
    /\ CompilerIdle
    /\ StoreIdle
    /\ GraphIdle

\* graph.merge_nodes(list)
MergeNodes ==
    \E list \in NodeLists :
        /\ nodes' = merge_nodes(nodes, list)
        /\ merged' = list
        /\ before' = nodes
        /\ written' = [id \in NodeIds |-> LastGiven(list, id, written[id])]
        /\ UNCHANGED <<edges, edge_written, conflict, fetchVars, compilerVars, graphVars>>

\* The request ends and its store is dropped.
DropStore ==
    /\ nodes # <<>> \/ edges # {}
    /\ nodes' = <<>>
    /\ merged' = <<>>
    /\ before' = <<>>
    /\ written' = [id \in NodeIds |-> Unwritten]
    /\ edges' = {}
    /\ edge_written' = [t \in Triples |-> NoWeight]
    /\ conflict' = FALSE
    /\ UNCHANGED <<fetchVars, compilerVars, graphVars>>

NextStore == MergeNodes \/ DropStore

SpecStore == InitStore /\ [][NextStore]_vars

\* graph.merge_edges(list), while the store has room for the result
MergeEdges ==
    \E list \in EdgeLists :
        /\ Cardinality(merge_edges(edges, list)) <= MaxStored
        /\ edges' = merge_edges(edges, list)
        /\ edge_written' = [t \in Triples |-> LastGivenEdge(list, t, edge_written[t])]
        /\ conflict' = Conflicts(list, edge_written)
        /\ UNCHANGED <<nodes, merged, before, written, fetchVars, compilerVars, graphVars>>

NextEdges == MergeEdges \/ DropStore

SpecEdges == InitStore /\ [][NextEdges]_vars

\* ------------------------------------------- nodes by id, and auto-connect

\* A token that is no entity id.
BadId == "bad id"

\* node_ids: the ids between the commas of the string; <<>> is the empty string.
NodeIdStrings ==
    UNION { [1 .. n -> {IdOf(i) : i \in RowIds} \cup {BadId}] : n \in 0 .. MaxNodes }

\* NodeIdsQuery::new: a list of entity ids, or nothing.
NodeIdsQuery_new(node_ids) == \A k \in 1 .. Len(node_ids) : node_ids[k] # BadId

IsEmptyString_Never(node_ids) == FALSE

\* node_ids == ""
IsEmptyString(node_ids) == node_ids = <<>>

\* The split of a string that loses what follows the last comma.
split_DropLast(node_ids) ==
    IF node_ids = <<>> THEN <<"">> ELSE SubSeq(node_ids, 1, Len(node_ids) - 1)

\* node_ids.split(","): the empty string splits into one empty id.
split(node_ids) == IF node_ids = <<>> THEN <<"">> ELSE node_ids

CallsAutoConnect_Never(ep) == FALSE

\* The handler calls graph.auto_connect_nodes, not graph.fetch_nodes_by_ids.
CallsAutoConnect(ep) == ep = "fetch_edges_auto_connect_nodes"

Elements(list) == {list[k] : k \in 1 .. Len(list)}

\* The entities whose id is in the list, as nodes.
EntityNodes(ids, entities) ==
    LET found == Ascending({i \in entities : IdOf(i) \in Elements(ids)})
    IN [k \in 1 .. Len(found) |-> Row(found[k])]

\* Row i of the relation table: relation 1 links the first entity to
\* itself, every other relation links its entity to the one before.
TargetOf(i) == IF i = 1 THEN IdOf(1) ELSE IdOf(i - 1)

Relation(i) ==
    [source_id |-> IdOf(i), target_id |-> TargetOf(i),
     relation_type |-> "treats", weight |-> 1]

\* The relations whose source and target are both in the list, as edges.
ConnectingEdges(ids, rels) ==
    LET found == Ascending({i \in rels : /\ Relation(i).source_id \in Elements(ids)
                                         /\ Relation(i).target_id \in Elements(ids)})
    IN [k \in 1 .. Len(found) |-> Relation(found[k])]

\* "Failed to validate node ids: ..."
ValidationError == "Failed to validate node ids"

\* GetGraphResponse::Ok(Json(graph))
GetGraphResponse_Ok(g) == [kind |-> "graph", nodes |-> g.nodes, edges |-> g.edges]

\* The statement of a graph operation over a list of ids.
IdsSql(table_name, ids) == [kind |-> "ids", table_name |-> table_name, ids |-> ids]

InitNodes ==
    /\ table \in Tables
    /\ relations \in Tables
    /\ embeddings = {}
    /\ overflow_checks = FALSE
    /\ FetchIdle
    /\ CompilerIdle
    /\ StoreIdle
    /\ SnapshotIdle
    /\ ServerIdle

\* A handler that takes node_ids, up to its call into the Graph:
\* NodeIdsQuery::new, Graph::new(), the empty string, the split.
NodeIdsEndpoint(name) ==
    /\ pc = "idle"
    /\ \E node_ids \in NodeIdStrings :
        /\ req' = [ep |-> name, node_ids |-> node_ids]
        /\ IF ~NodeIdsQuery_new(node_ids)
           THEN Return(BadRequest(ValidationError))
           ELSE IF IsEmptyString(node_ids)
           THEN Return(GetGraphResponse_Ok(to_owned(<<>>, {})))
           ELSE /\ pc' = "nodes"
                /\ UNCHANGED <<sql, queries, failed, records, resp>>
    /\ UNCHANGED <<table, overflow_checks, query, compilerVars, storeVars, graphVars>>

fetch_nodes == NodeIdsEndpoint("fetch_nodes")

fetch_edges_auto_connect_nodes == NodeIdsEndpoint("fetch_edges_auto_connect_nodes")

\* graph.fetch_nodes_by_ids(ids): nothing for no ids, else one lookup of the
\* entities whose id is in the list, merged as nodes.
fetch_nodes_by_ids ==
    /\ pc = "nodes"
    /\ LET ids == split(req.node_ids)
       IN IF ids = <<>>
          THEN /\ pc' = IF CallsAutoConnect(req.ep) THEN "edges" ELSE "done"
               /\ resp' = IF CallsAutoConnect(req.ep) THEN resp
                           ELSE GetGraphResponse_Ok(to_owned(nodes, edges))
               /\ UNCHANGED <<queries, failed, nodes>>
          ELSE /\ queries' = Append(queries, IdsSql("biomedgps_entity", ids))
               /\ \E up \in BOOLEAN :
                   IF ~up
                   THEN /\ resp' = BadRequest(QueryError)
                        /\ failed' = Append(failed, IdsSql("biomedgps_entity", ids))
                        /\ pc' = "done"
                        /\ UNCHANGED nodes
                   ELSE /\ nodes' = merge_nodes(nodes, EntityNodes(ids, table))
                        /\ UNCHANGED failed
                        /\ pc' = IF CallsAutoConnect(req.ep) THEN "edges" ELSE "done"
                        /\ resp' = IF CallsAutoConnect(req.ep) THEN resp
                                    ELSE GetGraphResponse_Ok(
                                            to_owned(merge_nodes(nodes, EntityNodes(ids, table)),
                                                     edges))
    /\ UNCHANGED <<table, overflow_checks, req, query, sql, records>>
    /\ UNCHANGED <<merged, before, written, edges, edge_written, conflict>>
    /\ UNCHANGED <<compilerVars, graphVars>>

\* graph.auto_connect_nodes(ids), after its nodes: one lookup of the
\* relations between the ids, merged as edges.
auto_connect_nodes ==
    /\ pc = "edges"
    /\ queries' = Append(queries, IdsSql("biomedgps_relation", split(req.node_ids)))
    /\ \E up \in BOOLEAN :
        IF ~up
        THEN /\ resp' = BadRequest(QueryError)
             /\ failed' = Append(failed, IdsSql("biomedgps_relation", split(req.node_ids)))
             /\ UNCHANGED edges
        ELSE /\ edges' = merge_edges(edges, ConnectingEdges(split(req.node_ids), relations))
             /\ UNCHANGED failed
             /\ resp' = GetGraphResponse_Ok(
                            to_owned(nodes,
                                     merge_edges(edges,
                                                 ConnectingEdges(split(req.node_ids), relations))))
    /\ pc' = "done"
    /\ UNCHANGED <<table, overflow_checks, req, query, sql, records>>
    /\ UNCHANGED <<nodes, merged, before, written, edge_written, conflict>>
    /\ UNCHANGED <<compilerVars, graphVars>>

\* The response is sent; the request's Graph is dropped with it.
RespondGraph ==
    /\ pc = "done"
    /\ pc' = "idle"
    /\ req' = NoReq
    /\ query' = NoQuery
    /\ sql' = NoSql
    /\ queries' = <<>>
    /\ failed' = <<>>
    /\ records' = <<>>
    /\ resp' = NoResp
    /\ nodes' = <<>>
    /\ edges' = {}
    /\ UNCHANGED <<table, overflow_checks, merged, before, written, edge_written, conflict>>
    /\ UNCHANGED <<compilerVars, graphVars>>

NextNodes ==
    \/ fetch_nodes
    \/ fetch_edges_auto_connect_nodes
    \/ fetch_nodes_by_ids
    \/ auto_connect_nodes
    \/ RespondGraph

SpecNodes == InitNodes /\ [][NextNodes]_vars

\* ------------------------------------------------------ nearest neighbours

\* "Failed to fetch similarity nodes: ..."
SimilarityError == "Failed to fetch similarity nodes"

\* The topk the Graph applies when the caller gives none.
DefaultTopk == 10

\* The topk in force.
TopkOf(topk) == IF topk = None THEN DefaultTopk ELSE topk

\* The number of rows of the largest neighbour source: more than the
\* origin and DefaultTopk neighbours.
MaxSource == 12

\* The rows a neighbour source holds.
SourceIds == 1 .. MaxSource

\* The neighbour sources: the small ones, and two that hold more
\* neighbours of every origin than DefaultTopk.
Sources == Tables \cup {SourceIds, SourceIds \ RowIds}

\* The row of the entity with the id.
RowOf(id) == CHOOSE i \in RowIds \cup SourceIds : IdOf(i) = id

\* The similarity score of two embeddings: their distance, smaller is nearer.
Score(i, j) == IF i > j THEN i - j ELSE j - i

\* The rows numbered in S as a sequence, the nearest to the origin first.
RECURSIVE Nearest(_, _)
Nearest(origin, S) ==
    IF S = {} THEN <<>>
    ELSE LET m == CHOOSE x \in S : \A y \in S :
                      \/ Score(origin, x) < Score(origin, y)
                      \/ Score(origin, x) = Score(origin, y) /\ x <= y
         IN <<m>> \o Nearest(origin, S \ {m})

\* The nearest-neighbour statement: the neighbours of the origin that match
\* the filter, nearest first, at most limit of them.
SimilarSql(node_id, where, limit) ==
    [kind |-> "similar", node_id |-> node_id, where |-> where, limit |-> limit]

\* Whether PostgreSQL runs the statement.
SimilarRuns(q) == Accepts(q.where) /\ q.limit <= BigintMax

\* The rows the statement returns from the neighbour source.
Neighbours(q, source) ==
    LET origin == RowOf(q.node_id)
        all == Nearest(origin, {j \in source \ {origin} : Where(q.where, Row(j)).val})
    IN Window(all, q.limit, 0)

\* The edge from the origin to a neighbour; its weight is the score.
SimilarityEdge(origin, j) ==
    [source_id |-> IdOf(origin), target_id |-> IdOf(j),
     relation_type |-> "similar", weight |-> Score(origin, j)]

SimilarityEdges(origin, rows) ==
    [k \in 1 .. Len(rows) |-> SimilarityEdge(origin, rows[k])]

\* The origin and its neighbours, as nodes.
SimilarityNodes(origin, rows) ==
    [k \in 1 .. Len(rows) + 1 |-> IF k = 1 THEN Row(origin) ELSE Row(rows[k - 1])]

OriginAlone_Always(node_id, entities) == <<Row(RowOf(node_id))>>

\* The origin by itself, when it exists as an entity.
OriginAlone(node_id, entities) == EntityNodes(<<node_id>>, entities)

InitSimilar ==
    /\ table \in Tables
    /\ embeddings \in Sources
    /\ relations = {}
    /\ overflow_checks \in BOOLEAN
    /\ FetchIdle
    /\ CompilerIdle
    /\ StoreIdle
    /\ SnapshotIdle
    /\ ServerIdle

\* The merge of the assembled nodes and edges, and the response.
Assembled(ns, es) ==
    /\ nodes' = ns
    /\ edges' = es
    /\ resp' = GetGraphResponse_Ok(to_owned(ns, es))

\* graph.fetch_similarity_nodes(node_id, query, topk): the nearest
\* neighbours of the origin are read from the neighbour source; an origin
\* the source does not hold is looked up as an entity.
SimilarNodes ==
    /\ pc = "assemble"
    /\ req.ep = "fetch_similarity_nodes"
    /\ LET q == SimilarSql(req.node_id, QueryStr(query), TopkOf(TopkArg(req.topk)))
           origin == RowOf(req.node_id)
       IN \E up \in BOOLEAN :
           IF ~(up /\ SimilarRuns(q))
           THEN /\ queries' = Append(queries, q)
                /\ failed' = Append(failed, q)
                /\ resp' = BadRequest(SimilarityError)
                /\ UNCHANGED <<records, nodes, edges>>
           ELSE IF origin \notin embeddings
           THEN /\ queries' = queries \o <<q, IdsSql("biomedgps_entity", <<req.node_id>>)>>
                /\ records' = <<>>
                /\ UNCHANGED failed
                /\ Assembled(merge_nodes(nodes, OriginAlone(req.node_id, table)), edges)
           ELSE /\ queries' = Append(queries, q)
                /\ records' = Neighbours(q, embeddings)
                /\ UNCHANGED failed
                /\ Assembled(merge_nodes(nodes, SimilarityNodes(origin, Neighbours(q, embeddings))),
                             merge_edges(edges, SimilarityEdges(origin, Neighbours(q, embeddings))))
    /\ pc' = "done"
    /\ UNCHANGED <<table, overflow_checks, req, query, sql>>
    /\ UNCHANGED <<merged, before, written, edge_written, conflict>>
    /\ UNCHANGED <<compilerVars, graphVars>>

NextSimilar ==
    \/ fetch_similarity_nodes
    \/ SimilarNodes
    \/ RespondGraph

SpecSimilar == InitSimilar /\ [][NextSimilar]_vars

\* ------------------------------------------------------ one-step expansion

\* "Failed to fetch linked nodes: ..."
LinkedError == "Failed to fetch"

\* The relations of the rows, as edges, in the order of the rows.
RelationEdges(rows) == [k \in 1 .. Len(rows) |-> Relation(rows[k])]

\* The ids at the two ends of the relations of the rows.
EndpointIds(rows) ==
    [k \in 1 .. 2 * Len(rows) |->
        IF k % 2 = 1 THEN Relation(rows[(k + 1) \div 2]).source_id
        ELSE Relation(rows[k \div 2]).target_id]

InitLinked ==
    /\ table \in Tables
    /\ relations \in Tables
    /\ embeddings = {}
    /\ overflow_checks \in BOOLEAN
    /\ FetchIdle
    /\ CompilerIdle
    /\ StoreIdle
    /\ SnapshotIdle
    /\ ServerIdle

\* graph.fetch_linked_nodes(query, page, page_size), first part: the page
\* of the relations the filter selects, read as get_records reads a page,
\* with the order_by None the handler passes.
LinkedRelations ==
    /\ pc = "assemble"
    /\ LET pag == Pagination(req.page, req.page_size, overflow_checks)
           q == SelectSql("biomedgps_relation", QueryStr(query), "", pag)
       IN IF pag.panic
          THEN /\ pc' = "done"
               /\ resp' = Panic
               /\ UNCHANGED <<queries, failed, records>>
          ELSE /\ queries' = Append(queries, q)
               /\ \E up \in BOOLEAN :
                   IF up /\ Runs(q)
                   THEN /\ records' = Rows(q, relations)
                        /\ pc' = "linked"
                        /\ UNCHANGED <<resp, failed>>
                   ELSE /\ resp' = BadRequest(LinkedError)
                        /\ failed' = Append(failed, q)
                        /\ pc' = "done"
                        /\ UNCHANGED records
    /\ UNCHANGED <<table, overflow_checks, req, query, sql>>
    /\ UNCHANGED <<compilerVars, storeVars, graphVars>>

\* graph.fetch_linked_nodes, second part: the entities at both ends of the
\* relations of the page are looked up; ends and relations are merged.
LinkedNodes ==
    /\ pc = "linked"
    /\ IF records = <<>>
       THEN /\ resp' = GetGraphResponse_Ok(to_owned(nodes, edges))
            /\ UNCHANGED <<queries, failed, nodes, edges>>
       ELSE /\ queries' = Append(queries, IdsSql("biomedgps_entity", EndpointIds(records)))
            /\ \E up \in BOOLEAN :
                IF ~up
                THEN /\ resp' = BadRequest(LinkedError)
                     /\ failed' = Append(failed, IdsSql("biomedgps_entity", EndpointIds(records)))
                     /\ UNCHANGED <<nodes, edges>>
                ELSE /\ nodes' = merge_nodes(nodes, EntityNodes(EndpointIds(records), table))
                     /\ UNCHANGED failed
                     /\ edges' = merge_edges(edges, RelationEdges(records))
                     /\ resp' = GetGraphResponse_Ok(
                                    to_owned(merge_nodes(nodes,
                                                EntityNodes(EndpointIds(records), table)),
                                             merge_edges(edges, RelationEdges(records))))
    /\ pc' = "done"
    /\ UNCHANGED <<table, overflow_checks, req, query, sql, records>>
    /\ UNCHANGED <<merged, before, written, edge_written, conflict>>
    /\ UNCHANGED <<compilerVars, graphVars>>

NextLinked ==
    \/ fetch_one_step_linked_nodes
    \/ LinkedRelations
    \/ LinkedNodes
    \/ RespondGraph

SpecLinked == InitLinked /\ [][NextLinked]_vars

\* ------------------------------------------------ storage that fails

\* A list endpoint and an assembly endpoint over storage whose calls may
\* fail one by one.
NextErrors ==
    \/ fetch_entities
    \/ FetchAll
    \/ FetchOne
    \/ fetch_one_step_linked_nodes
    \/ LinkedRelations
    \/ LinkedNodes
    \/ RespondGraph

SpecErrors == InitLinked /\ [][NextErrors]_vars

\* ---------------------------------------------------- the write endpoints

\* The payloads a caller sends: the valid ones and one that fails validation.
PayloadInputs == Payloads \cup {"invalid"}

validate_Lenient(payload) == TRUE

\* payload.validate()
validate(payload) == payload \in Payloads

\* The ids of the curated-knowledge paths: an i64, negative or a row's id.
CuratedIds == {-1} \cup RowIds

\* The ids of the subgraph paths: a row's id or a string that is none.
SubgraphIds == {IdOf(i) : i \in RowIds} \cup {BadId}

\* if id < 0 { bad_request }
NotNegative(id) == id >= 0

\* SubgraphIdQuery::new
SubgraphIdQuery_new(id) == id # BadId

\* A row of a written table.  written stands for the columns the UPDATE of
\* the table sets (of biomedgps_knowledge_curation: relation_type, the
\* source and target columns, key_sentence, pmid), kept for the columns only
\* the INSERT writes (relation_id and curator; of biomedgps_subgraph: owner,
\* version, db_version, parent).
StoredRow(id, set, kept) == [id |-> id, written |-> set, kept |-> kept]

\* The contents a written table starts with: ids are given out in order and
\* never twice (the id column's default, a fresh uuid), rows may have been
\* deleted.
TableContents ==
    UNION { { [last |-> n, rows |-> [i \in S |-> StoredRow(i, "v1", "v1")]]
              : S \in SUBSET (1 .. n) } : n \in 0 .. MaxWritten }

\* INSERT INTO ... RETURNING *: every column of the payload, under a new id.
Inserted(t, payload) ==
    [last |-> t.last + 1,
     rows |-> (t.last + 1 :> StoredRow(t.last + 1, payload, payload)) @@ t.rows]

\* UPDATE ... SET ... WHERE id = row RETURNING *: the columns of the SET
\* list take the payload's values, the others keep theirs.
Updated(t, row, payload) ==
    [t EXCEPT !.rows = [t.rows EXCEPT ![row] = StoredRow(row, payload, @.kept)]]

\* DELETE FROM ... WHERE id = row RETURNING *
Deleted(t, row) ==
    [t EXCEPT !.rows = [i \in (DOMAIN t.rows) \ {row} |-> t.rows[i]]]

\* INSERT INTO ... RETURNING *, UPDATE ... WHERE id = row RETURNING *,
\* DELETE FROM ... WHERE id = row RETURNING *
WriteSql(kind, table_name, row, payload) ==
    [kind |-> kind, table_name |-> table_name, row |-> row, payload |-> payload]

\* Whether PostgreSQL parses the statement: the UPDATE of biomedgps_subgraph
\* has a comma before WHERE.
WellFormed(q) == ~(q.kind = "update" /\ q.table_name = "biomedgps_subgraph")

\* PostResponse::Created(Json(row)): the row the statement returned.
Created(row) == [kind |-> "created", row |-> row]

\* DeleteResponse::no_content()
NoContent == [kind |-> "no_content"]

\* DeleteResponse::not_found(err)
NotFound(err) == [kind |-> "not_found", err |-> err]

\* "Invalid id: ...", "Failed to parse subgraph id: ..."
InvalidId == "Invalid id"

\* "Failed to validate payload: ..."
InvalidPayload == "Failed to validate payload"

\* "Failed to insert curated knowledge: ...", "Failed to delete ..."
WriteError == "Failed to write"

InitWrite ==
    /\ table = {}
    /\ relations = {}
    /\ embeddings = {}
    /\ overflow_checks = FALSE
    /\ FetchIdle
    /\ CompilerIdle
    /\ StoreIdle
    /\ SnapshotIdle
    /\ storage \in [WriteTables -> TableContents]
    /\ SessionsIdle
    /\ ImportsIdle

\* A create endpoint up to its storage call: the payload is validated.
\* Requests are taken while the table has one of its MaxWritten ids left to
\* give.
PostEndpoint(name, table_name) ==
    /\ pc = "idle"
    /\ storage[table_name].last < MaxWritten
    /\ \E payload \in PayloadInputs :
        /\ req' = [ep |-> name, kind |-> "insert", payload |-> payload]
        /\ IF ~validate(payload)
           THEN Return(BadRequest(InvalidPayload))
           ELSE /\ pc' = "write"
                /\ sql' = WriteSql("insert", table_name, 0, payload)
                /\ UNCHANGED <<queries, failed, records, resp>>
    /\ UNCHANGED <<table, overflow_checks, query, compilerVars, storeVars, graphVars>>

\* An update or delete endpoint up to its storage call: the id is checked,
\* then the payload of an update is validated.
PathEndpoint(name, kind, table_name, id, id_ok, row) ==
    /\ pc = "idle"
    /\ \E payload \in (IF kind = "delete" THEN {"none"} ELSE PayloadInputs) :
        /\ req' = [ep |-> name, kind |-> kind, id |-> id, payload |-> payload]
        /\ IF ~id_ok
           THEN Return(BadRequest(InvalidId))
           ELSE IF kind = "update" /\ ~validate(payload)
           THEN Return(BadRequest(InvalidPayload))
           ELSE /\ pc' = "write"
                /\ sql' = WriteSql(kind, table_name, row, payload)
                /\ UNCHANGED <<queries, failed, records, resp>>
    /\ UNCHANGED <<table, overflow_checks, query, compilerVars, storeVars, graphVars>>

post_curated_knowledge == PostEndpoint("post_curated_knowledge", "biomedgps_knowledge_curation")

put_curated_knowledge ==
    \E id \in CuratedIds :
        PathEndpoint("put_curated_knowledge", "update", "biomedgps_knowledge_curation",
                     id, NotNegative(id), id)

delete_curated_knowledge ==
    \E id \in CuratedIds :
        PathEndpoint("delete_curated_knowledge", "delete", "biomedgps_knowledge_curation",
                     id, NotNegative(id), id)

post_subgraph == PostEndpoint("post_subgraph", "biomedgps_subgraph")

put_subgraph ==
    \E id \in SubgraphIds :
        PathEndpoint("put_subgraph", "update", "biomedgps_subgraph",
                     id, SubgraphIdQuery_new(id), IF id = BadId THEN 0 ELSE RowOf(id))

delete_subgraph ==
    \E id \in SubgraphIds :
        PathEndpoint("delete_subgraph", "delete", "biomedgps_subgraph",
                     id, SubgraphIdQuery_new(id), IF id = BadId THEN 0 ELSE RowOf(id))

\* The answer to a write that returned Err: not_found from the delete
\* endpoints, bad_request from the others.
WriteFailure(kind) ==
    IF kind = "delete" THEN NotFound(WriteError) ELSE BadRequest(WriteError)

\* insert, update, delete: fetch_one of the statement.  Storage fails,
\* rejects the statement, finds no row (RowNotFound), or writes the row and
\* returns it.
Execute ==
    /\ pc = "write"
    /\ queries' = Append(queries, sql)
    /\ \E up \in BOOLEAN :
        LET t == storage[sql.table_name]
        IN IF ~(up /\ WellFormed(sql))
           THEN /\ failed' = Append(failed, sql)
                /\ resp' = WriteFailure(sql.kind)
                /\ UNCHANGED storage
           ELSE /\ UNCHANGED failed
                /\ IF sql.kind = "insert"
                   THEN /\ storage' = [storage EXCEPT ![sql.table_name] = Inserted(t, sql.payload)]
                        /\ resp' = Created(Inserted(t, sql.payload).rows[t.last + 1])
                   ELSE IF sql.row \notin DOMAIN t.rows
                   THEN /\ resp' = WriteFailure(sql.kind)
                        /\ UNCHANGED storage
                   ELSE IF sql.kind = "update"
                   THEN /\ storage' = [storage EXCEPT
                                         ![sql.table_name] = Updated(t, sql.row, sql.payload)]
                        /\ resp' = Created(Updated(t, sql.row, sql.payload).rows[sql.row])
                   ELSE /\ storage' = [storage EXCEPT ![sql.table_name] = Deleted(t, sql.row)]
                        /\ resp' = NoContent
    /\ sql' = NoSql
    /\ pc' = "done"
    /\ UNCHANGED <<table, overflow_checks, req, query, records, compilerVars, storeVars>>
    /\ UNCHANGED <<relations, embeddings, snapshotVars, phase, sessions, conn, imported, relation_embeddings>>

NextWrite ==
    \/ post_curated_knowledge
    \/ put_curated_knowledge
    \/ delete_curated_knowledge
    \/ post_subgraph
    \/ put_subgraph
    \/ delete_subgraph
    \/ Execute
    \/ Respond

SpecWrite == InitWrite /\ [][NextWrite]_vars

\* ------------------------------------------ reads while other requests write

\* KnowledgeCuration::insert of another request takes effect.
insert ==
    /\ \E i \in RowIds \ table : table' = table \cup {i}
    /\ UNCHANGED <<overflow_checks, pc, req, query, sql, queries, failed, records, resp>>
    /\ UNCHANGED <<compilerVars, storeVars, graphVars>>

\* KnowledgeCuration::delete of another request takes effect.
delete ==
    /\ \E i \in table : table' = table \ {i}
    /\ UNCHANGED <<overflow_checks, pc, req, query, sql, queries, failed, records, resp>>
    /\ UNCHANGED <<compilerVars, storeVars, graphVars>>

NextRace ==
    \/ fetch_curated_knowledges
    \/ FetchAll
    \/ FetchOne
    \/ Respond
    \/ insert
    \/ delete

SpecRace == InitFetch /\ [][NextRace]_vars

\* ----------------------------------------------------- the import of files

\* A line of a file that does not parse as a record.
BadLine == 0

\* The number of distinct embedding rows the files and the tables draw from.
MaxEmbeddings == 2

\* The embedding rows.
EmbeddingIds == 1 .. MaxEmbeddings

\* The files: up to MaxItems lines, each a row or a line that does not parse.
Files == UNION { [1 .. n -> EmbeddingIds \cup {BadLine}] : n \in 0 .. MaxItems }

\* The rows of a file.
RowsOf(file) == Elements(file) \ {BadLine}

\* if drop { drop_table(...).await; }: the table after it, emptied when the
\* drop is asked for and storage carries it out.
Dropped(drop, up, t) == IF drop /\ up THEN {} ELSE t

\* The rows of an embedding table.
Embedding(table_name) ==
    IF table_name = "biomedgps_entity_embedding" THEN embeddings ELSE relation_embeddings

InitImport ==
    /\ table = {}
    /\ relations = {}
    /\ embeddings \in SUBSET EmbeddingIds
    /\ relation_embeddings \in SUBSET EmbeddingIds
    /\ imported = [t \in EmbeddingTables |-> {}]
    /\ overflow_checks = FALSE
    /\ FetchIdle
    /\ CompilerIdle
    /\ StoreIdle
    /\ SnapshotIdle
    /\ storage = [t \in WriteTables |-> EmptyTable]
    /\ SessionsIdle

\* An import up to its first INSERT: its table is dropped when asked, the
\* file is opened.  The outcome of drop_table is not looked at: when storage
\* fails the drop, drop_table either panics or returns, and when it returns
\* the import goes on with the table as it was.
Import(name, table_name) ==
    /\ pc = "idle"
    /\ \E file \in Files, drop \in BOOLEAN, readable \in BOOLEAN,
          up \in BOOLEAN, returns \in BOOLEAN :
        /\ req' = [ep |-> name, table_name |-> table_name, file |-> file, drop |-> drop,
                   dropped |-> drop /\ up, before |-> Embedding(table_name)]
        /\ IF drop /\ ~up /\ ~returns
           THEN /\ pc' = "done"
                /\ resp' = Panic
                /\ UNCHANGED <<embeddings, relation_embeddings, imported, records>>
           ELSE /\ embeddings' = IF table_name = "biomedgps_entity_embedding"
                                  THEN Dropped(drop, up, embeddings) ELSE embeddings
                /\ relation_embeddings' = IF table_name = "biomedgps_relation_embedding"
                                           THEN Dropped(drop, up, relation_embeddings)
                                           ELSE relation_embeddings
                /\ imported' = IF drop /\ up
                               THEN [imported EXCEPT ![table_name] = {}] ELSE imported
                /\ IF readable
                   THEN pc' = "insert" /\ records' = file /\ UNCHANGED resp
                   ELSE pc' = "done" /\ resp' = [kind |-> "err"] /\ UNCHANGED records
    /\ UNCHANGED <<table, overflow_checks, query, sql, queries, failed>>
    /\ UNCHANGED <<compilerVars, storeVars, relations, snapshotVars>>
    /\ UNCHANGED <<storage, phase, sessions, conn>>

import_entity_embeddings ==
    Import("import_entity_embeddings", "biomedgps_entity_embedding")

import_relation_embeddings ==
    Import("import_relation_embeddings", "biomedgps_relation_embedding")

\* One turn of the loop over the records of the file: the line is parsed
\* and inserted into the import's table; the first Err ends the import;
\* Ok(()) after the last line.
InsertRecord ==
    /\ pc = "insert"
    /\ IF records = <<>>
       THEN /\ pc' = "done"
            /\ resp' = [kind |-> "ok"]
            /\ imported' = [imported EXCEPT ![req.table_name] = @ \cup RowsOf(req.file)]
            /\ UNCHANGED <<embeddings, relation_embeddings, records>>
       ELSE \E up \in BOOLEAN :
            IF Head(records) = BadLine \/ ~up \/ Head(records) \in Embedding(req.table_name)
            THEN /\ pc' = "done"
                 /\ resp' = [kind |-> "err"]
                 /\ UNCHANGED <<embeddings, relation_embeddings, imported, records>>
            ELSE /\ embeddings' = IF req.table_name = "biomedgps_entity_embedding"
                                   THEN embeddings \cup {Head(records)} ELSE embeddings
                 /\ relation_embeddings' = IF req.table_name = "biomedgps_relation_embedding"
                                            THEN relation_embeddings \cup {Head(records)}
                                            ELSE relation_embeddings
                 /\ records' = Tail(records)
                 /\ UNCHANGED <<pc, resp, imported>>
    /\ UNCHANGED <<table, overflow_checks, req, query, sql, queries, failed>>
    /\ UNCHANGED <<compilerVars, storeVars, relations, snapshotVars>>
    /\ UNCHANGED <<storage, phase, sessions, conn>>

NextImport ==
    \/ import_entity_embeddings
    \/ import_relation_embeddings
    \/ InsertRecord
    \/ Respond

SpecImport == InitImport /\ [][NextImport]_vars

\* --------------------------------------------------------- LLM messages

\* The category strings a caller gives: the three of the templates, and
\* strings near them.
CategoryInputs ==
    {"node_summary", "edge_summary", "custom_question", "", "summary",
     "Node_Summary", "node-summary", "node_summary ", "NodeSummary"}

PromptKeys_Extra == {"node_summary", "edge_summary", "custom_question", "summary"}

\* The keys of PROMPT_TEMPLATE.
PromptKeys == {"node_summary", "edge_summary", "custom_question"}

\* PROMPT_TEMPLATE: per key, the template.
PROMPT_TEMPLATE ==
    [k \in PromptKeys |->
        IF k = "node_summary"
        THEN "You need to execute the following instructions I send you: find the related "
             \o "information for the question, summarize the information you found and "
             \o "output a summary no more than 500 words, give me the sources of information. "
             \o "Notice: Please just return me the sentence 'I don't know what you say, "
             \o "it seems not to be a right question related with specific topic', if the "
             \o "question I send you is not related with medical concepts, such as {{entity_type}}.\n\nWhat's "
             \o "the {{entity_name}} which id is {{entity_id}}?"
        ELSE IF k = "edge_summary"
        THEN "You need to execute the following instructions I send you: find the related "
             \o "information for the question, summarize the information you found and "
             \o "output a summary no more than 500 words, give me the sources of information. "
             \o "Notice: Please just return me the sentence 'I don't know what you say, "
             \o "it seems not to be a right question related with specific topic', if the "
             \o "question I send you is not related with medical concepts.\n\nWhat's the "
             \o "{{source_name}}[{{source_id}}, {{source_type}}] -> {{relation_type}} -> "
             \o "{{target_name}}[{{target_id}}, {{target_type}}?"
        ELSE "You need to execute the following instructions I send you: find the related "
             \o "information for the question, summarize the information you found and "
             \o "output a summary no more than 500 words, give me the sources of information. "
             \o "Notice: Please just return me the sentence 'I don't know what you say, "
             \o "it seems not to be a right question related with specific topic', if the "
             \o "question I send you is not related with medical concepts.\n\n{{custom_question}}"]

\* Entity i as a context.
EntityContext(i) ==
    [kind |-> "Entity", id |-> IdOf(i), label |-> LabelOf(i),
     name |-> "entity " \o ToString(i)]

\* Relation i with the entities at its ends as a context.
ExpandedRelation(i) ==
    [kind |-> "ExpandedRelation", relation |-> Relation(i),
     source |-> EntityContext(i), target |-> EntityContext(RowOf(TargetOf(i)))]

\* Contexts whose own texts are, or hold, placeholders of the templates.
PlaceholderContexts ==
    { [kind |-> "Entity", id |-> "e1", label |-> "Disease", name |-> "{{entity_id}}"],
      [kind |-> "Entity", id |-> "e1", label |-> "Disease",
       name |-> "see {{entity_id}} here"],
      [kind |-> "ExpandedRelation", relation |-> Relation(2),
       source |-> [kind |-> "Entity", id |-> "e2", label |-> "Gene",
                   name |-> "a {{target_name}} b"],
       target |-> EntityContext(1)],
      [kind |-> "Entity", id |-> "{{entity_type}}", label |-> "Gene", name |-> "n"],
      [kind |-> "ExpandedRelation", relation |-> Relation(2),
       source |-> [kind |-> "Entity", id |-> "e2", label |-> "Gene",
                   name |-> "{{target_name}}"],
       target |-> EntityContext(1)] }

\* The contexts: the entities and the expanded relations.
Contexts ==
    {EntityContext(i) : i \in RowIds} \cup {ExpandedRelation(i) : i \in RowIds}
    \cup PlaceholderContexts

\* The session ids a caller gives or Uuid::new_v4() makes.
Uuids == {"uuid a", "uuid b"}

\* impl From<String> for PromptTemplateCategory: the category, or a panic.
PromptTemplateCategory_from(v) ==
    IF v = "node_summary" THEN "NodeSummary"
    ELSE IF v = "edge_summary" THEN "EdgeSummary"
    ELSE IF v = "custom_question" THEN "CustomQuestion"
    ELSE "panic"

\* impl Into<String> for PromptTemplateCategory
PromptTemplateCategory_into(value) ==
    IF value = "NodeSummary" THEN "node_summary"
    ELSE IF value = "EdgeSummary" THEN "edge_summary"
    ELSE "custom_question"

RECURSIVE replace(_, _, _)

\* String::replace(from, to): the occurrences of from in the text as it is
\* now, found from the left and not overlapping, become to; the text put in
\* is not searched again by the same call.
replace(prompt, from, to) ==
    LET starts == {k \in 1 .. Len(prompt) - Len(from) + 1 :
                        SubSeq(prompt, k, k + Len(from) - 1) = from}
    IN IF starts = {}
       THEN prompt
       ELSE LET first == CHOOSE k \in starts : \A j \in starts : k <= j
            IN SubSeq(prompt, 1, first - 1) \o to
               \o replace(SubSeq(prompt, first + Len(from), Len(prompt)), from, to)

\* impl LlmContext for Entity and for ExpandedRelation, render_prompt: the
\* placeholders are replaced one after the other, each in the text the
\* replacement before it has left.
render_prompt(context, template) ==
    IF context.kind = "Entity"
    THEN replace(replace(replace(template,
                "{{entity_name}}", context.name),
                "{{entity_id}}", context.id),
                "{{entity_type}}", context.label)
    ELSE replace(replace(replace(replace(replace(replace(replace(template,
                "{{source_name}}", context.source.name),
                "{{source_id}}", context.source.id),
                "{{source_type}}", context.source.label),
                "{{relation_type}}", context.relation.relation_type),
                "{{target_name}}", context.target.name),
                "{{target_id}}", context.target.id),
                "{{target_type}}", context.target.label)

\* LlmMessage::new(prompt_template_category, context, session_uuid), with
\* the session id used when none is given.
LlmMessage_new(category, context, session_uuid) ==
    IF category \notin PromptKeys
    THEN [kind |-> "err", err |-> "Invalid prompt template category"]
    ELSE IF PromptTemplateCategory_from(category) = "panic"
    THEN Panic
    ELSE [kind |-> "llm_message", id |-> 0, session_uuid |-> session_uuid,
          prompt_template |-> PROMPT_TEMPLATE[category],
          prompt_template_category |-> PromptTemplateCategory_from(category),
          context |-> context,
          prompt |-> render_prompt(context, PROMPT_TEMPLATE[category]),
          message |-> ""]

\* A call of LlmMessage::new.
new ==
    /\ pc = "idle"
    /\ \E category \in CategoryInputs, context \in Contexts,
          given \in BOOLEAN, uuid \in Uuids :
        /\ req' = [ep |-> "LlmMessage::new", category |-> category,
                      context |-> context, given |-> given]
        /\ resp' = LlmMessage_new(category, context, uuid)
    /\ pc' = "done"
    /\ UNCHANGED <<table, overflow_checks, query, sql, queries, failed, records>>
    /\ UNCHANGED <<compilerVars, storeVars, graphVars>>

NextLlm == new \/ Respond

SpecLlm == InitStore /\ [][NextLlm]_vars

\* ------------------------------------- one store, the same lookup repeated

InitRefetch ==
    /\ table \in Tables
    /\ relations = {}
    /\ embeddings = {}
    /\ overflow_checks = FALSE
    /\ FetchIdle
    /\ CompilerIdle
    /\ StoreIdle
    /\ SnapshotIdle
    /\ ServerIdle

\* Graph::new(), and the list of ids the session looks up.
BeginAssembly ==
    /\ pc = "idle"
    /\ \E ids \in {l \in NodeIdStrings : NodeIdsQuery_new(l)} :
        req' = [ep |-> "assembly", node_ids |-> ids]
    /\ pc' = "first"
    /\ UNCHANGED <<table, overflow_checks, query, sql, queries, failed, records, resp>>
    /\ UNCHANGED <<compilerVars, storeVars, graphVars>>

\* graph.fetch_nodes_by_ids(ids) on the session's store, a first or a
\* second time: its result is merged into what the store holds.
FetchNodesAgain ==
    /\ pc \in {"first", "second"}
    /\ before' = nodes
    /\ IF req.node_ids = <<>>
       THEN /\ pc' = IF pc = "first" THEN "second" ELSE "twice"
            /\ UNCHANGED <<queries, failed, nodes>>
       ELSE /\ queries' = Append(queries, IdsSql("biomedgps_entity", req.node_ids))
            /\ \E up \in BOOLEAN :
                IF ~up
                THEN /\ pc' = "failed"
                     /\ failed' = Append(failed, IdsSql("biomedgps_entity", req.node_ids))
                     /\ UNCHANGED nodes
                ELSE /\ nodes' = merge_nodes(nodes, EntityNodes(req.node_ids, table))
                     /\ UNCHANGED failed
                     /\ pc' = IF pc = "first" THEN "second" ELSE "twice"
    /\ UNCHANGED <<table, overflow_checks, req, query, sql, records, resp>>
    /\ UNCHANGED <<merged, written, edges, edge_written, conflict>>
    /\ UNCHANGED <<compilerVars, graphVars>>

\* The session ends and its store is dropped.
EndAssembly ==
    /\ pc \in {"twice", "failed"}
    /\ pc' = "idle"
    /\ req' = NoReq
    /\ queries' = <<>>
    /\ failed' = <<>>
    /\ nodes' = <<>>
    /\ before' = <<>>
    /\ UNCHANGED <<table, overflow_checks, query, sql, records, resp>>
    /\ UNCHANGED <<merged, written, edges, edge_written, conflict>>
    /\ UNCHANGED <<compilerVars, graphVars>>

NextRefetch == BeginAssembly \/ FetchNodesAgain \/ EndAssembly

SpecRefetch == InitRefetch /\ [][NextRefetch]_vars

\* ------------------------------------------------- snapshots of the store

\* The edges merged into a store a snapshot is taken of.
SnapshotEdges == {e \in Edges : e.relation_type = "treats"}

HasRoom(ns, es) == Len(ns) + Cardinality(es) <= MaxLive

\* graph.merge_nodes(<<node>>), before or after a snapshot
MergeNodeLive ==
    \E node \in Nodes :
        /\ HasRoom(merge_nodes(nodes, <<node>>), edges)
        /\ nodes' = merge_nodes(nodes, <<node>>)
        /\ touched' = (snap # NoSnapshot)
        /\ UNCHANGED <<merged, before, written, edges, edge_written, conflict>>
        /\ UNCHANGED <<snap, taken, relations, embeddings, serverVars, fetchVars, compilerVars>>

\* graph.merge_edges(<<e>>), before or after a snapshot
MergeEdgeLive ==
    \E e \in SnapshotEdges :
        /\ HasRoom(nodes, merge_edges(edges, <<e>>))
        /\ edges' = merge_edges(edges, <<e>>)
        /\ touched' = (snap # NoSnapshot)
        /\ UNCHANGED <<nodes, merged, before, written, edge_written, conflict>>
        /\ UNCHANGED <<snap, taken, relations, embeddings, serverVars, fetchVars, compilerVars>>

\* graph.to_owned().get_graph(None): the Graph handed to the response
get_graph ==
    /\ snap' = to_owned(nodes, edges)
    /\ taken' = [nodes |-> nodes, edges |-> edges]
    /\ touched' = FALSE
    /\ UNCHANGED <<storeVars, relations, embeddings, serverVars, fetchVars, compilerVars>>

\* The request ends: the store and the Graph are dropped.
DropGraph ==
    /\ snap # NoSnapshot
    /\ nodes' = <<>>
    /\ edges' = {}
    /\ snap' = NoSnapshot
    /\ taken' = NoSnapshot
    /\ touched' = FALSE
    /\ UNCHANGED <<merged, before, written, edge_written, conflict>>
    /\ UNCHANGED <<relations, embeddings, serverVars, fetchVars, compilerVars>>

NextSnapshot == MergeNodeLive \/ MergeEdgeLive \/ get_graph \/ DropGraph

SpecSnapshot == InitStore /\ [][NextSnapshot]_vars

\* ---------------------------------------------- concurrent graph requests

\* The node_ids of the concurrent requests: the sets of entity ids,
\* ascending (the empty string among them), and a string that is no id list.
IdLists ==
    {[k \in 1 .. Cardinality(S) |-> IdOf(Ascending(S)[k])] : S \in SUBSET RowIds}
    \cup {<<BadId>>}

StoreOf_Shared(r) == 1

\* let mut graph = Graph::new(): the Graph request r merges into is its own.
StoreOf(r) == r

\* The sessions after request r has put nodes and edges into its Graph.
WithGraph(r, ns, es) ==
    [sessions EXCEPT ![StoreOf(r)].nodes = ns, ![StoreOf(r)].edges = es]

InitConcurrent ==
    /\ table = RowIds \ {1}
    /\ relations = RowIds
    /\ embeddings = {}
    /\ overflow_checks = FALSE
    /\ FetchIdle
    /\ CompilerIdle
    /\ StoreIdle
    /\ SnapshotIdle
    /\ ServerIdle

\* What a step of a concurrent request leaves alone.
OnlySessions ==
    /\ UNCHANGED <<fetchVars, compilerVars, storeVars>>
    /\ UNCHANGED <<relations, embeddings, snapshotVars, storage, phase, conn, imported, relation_embeddings>>

\* Request r enters fetch_edges_auto_connect_nodes: NodeIdsQuery::new,
\* Graph::new(), the empty string answered at once with the new Graph, the
\* split.
BeginRequest ==
    \E r \in Requests, node_ids \in IdLists :
        /\ sessions[r].pc = "idle"
        /\ sessions' =
            IF ~NodeIdsQuery_new(node_ids)
            THEN [sessions EXCEPT ![r].pc = "done", ![r].ids = node_ids,
                                  ![r].resp = BadRequest(ValidationError)]
            ELSE IF IsEmptyString(node_ids)
            THEN [WithGraph(r, <<>>, {})
                  EXCEPT ![r].pc = "done", ![r].ids = node_ids,
                         ![r].resp = GetGraphResponse_Ok(to_owned(<<>>, {}))]
            ELSE [WithGraph(r, <<>>, {})
                  EXCEPT ![r].pc = "nodes", ![r].ids = split(node_ids)]
        /\ OnlySessions

\* Request r looks its nodes up and merges them, or storage fails.
RequestNodes ==
    \E r \in Requests, up \in BOOLEAN :
        /\ sessions[r].pc = "nodes"
        /\ sessions' =
            IF up
            THEN [WithGraph(r, merge_nodes(sessions[StoreOf(r)].nodes,
                                           EntityNodes(sessions[r].ids, table)),
                            sessions[StoreOf(r)].edges)
                  EXCEPT ![r].pc = "edges"]
            ELSE [sessions EXCEPT ![r].pc = "done", ![r].resp = BadRequest(QueryError)]
        /\ OnlySessions

\* Request r looks the relations between its ids up, merges them and
\* answers with its Graph, or storage fails.
RequestEdges ==
    \E r \in Requests, up \in BOOLEAN :
        /\ sessions[r].pc = "edges"
        /\ sessions' =
            IF up
            THEN [WithGraph(r, sessions[StoreOf(r)].nodes,
                            merge_edges(sessions[StoreOf(r)].edges,
                                        ConnectingEdges(sessions[r].ids, relations)))
                  EXCEPT ![r].pc = "done",
                         ![r].resp = GetGraphResponse_Ok(
                             to_owned(sessions[StoreOf(r)].nodes,
                                      merge_edges(sessions[StoreOf(r)].edges,
                                                  ConnectingEdges(sessions[r].ids, relations))))]
            ELSE [sessions EXCEPT ![r].pc = "done", ![r].resp = BadRequest(QueryError)]
        /\ OnlySessions

\* The response of request r is sent and its Graph is dropped.
EndRequest ==
    \E r \in Requests :
        /\ sessions[r].pc = "done"
        /\ sessions' = [WithGraph(r, <<>>, {}) EXCEPT ![r].pc = "idle", ![r].ids = <<>>,
                                                      ![r].resp = NoResp]
        /\ OnlySessions

NextConcurrent ==
    \/ BeginRequest
    \/ RequestNodes
    \/ RequestEdges
    \/ EndRequest

SpecConcurrent == InitConcurrent /\ [][NextConcurrent]_vars

\* ------------------------------------------------- the connection pool

\* PgPoolOptions::new().max_connections(5)
max_connections == 5

\* The clients whose query holds a connection of the pool.
InFlight == {c \in Clients : conn[c] = "running"}

InitPool ==
    /\ table = {}
    /\ relations = {}
    /\ embeddings = {}
    /\ overflow_checks = FALSE
    /\ FetchIdle
    /\ CompilerIdle
    /\ StoreIdle
    /\ SnapshotIdle
    /\ ServerIdle

\* What a step of the pool leaves alone.
OnlyConn ==
    /\ UNCHANGED <<fetchVars, compilerVars, storeVars>>
    /\ UNCHANGED <<relations, embeddings, snapshotVars, storage, phase, sessions, imported, relation_embeddings>>

\* A handler issues a query: it takes a connection when fewer than
\* max_connections are in use, and waits for one otherwise.
acquire ==
    \E c \in Clients :
        /\ conn[c] = "idle"
        /\ conn' = [conn EXCEPT ![c] = IF Cardinality(InFlight) < max_connections
                                       THEN "running" ELSE "waiting"]
        /\ OnlyConn

\* A waiting query is handed a connection that has been released.
Wake(c) ==
    /\ conn[c] = "waiting"
    /\ Cardinality(InFlight) < max_connections
    /\ conn' = [conn EXCEPT ![c] = "running"]
    /\ OnlyConn

\* A running query completes and its connection returns to the pool.
release(c) ==
    /\ conn[c] = "running"
    /\ conn' = [conn EXCEPT ![c] = "done"]
    /\ OnlyConn

\* PgPoolOptions::new() keeps the pool's acquire timeout: a query that has
\* waited that long for a connection fails with PoolTimedOut.
acquire_timeout ==
    \E c \in Clients :
        /\ conn[c] = "waiting"
        /\ conn' = [conn EXCEPT ![c] = "failed"]
        /\ OnlyConn

\* The handler returns the result or the error of its query.
Answered ==
    \E c \in Clients :
        /\ conn[c] \in {"done", "failed"}
        /\ conn' = [conn EXCEPT ![c] = "idle"]
        /\ OnlyConn

Woken == \E c \in Clients : Wake(c)

Released == \E c \in Clients : release(c)

NextPool ==
    \/ acquire
    \/ Woken
    \/ Released
    \/ acquire_timeout
    \/ Answered

\* Running queries complete, and a released connection is handed on.
PoolFairness ==
    \A c \in Clients : WF_vars(release(c)) /\ SF_vars(Wake(c))

SpecPool == InitPool /\ [][NextPool]_vars /\ PoolFairness

\* ------------------------------------------------- one assembly session

Accepts_Always(ph) == TRUE

\* Whether a session in the phase accepts a merge or a fetch.
Accepts_Merge(ph) == ph # "Finalized"

\* How many times the snapshot of a session is read again.
MaxReads == 2

\* if node_ids == "" { return GetGraphResponse::Ok(Json(graph)) }: the new
\* Graph is the answer, without a fetch operation and without get_graph.
SessionNoIds ==
    /\ phase = "Empty"
    /\ resp = NoResp
    /\ resp' = GetGraphResponse_Ok(to_owned(nodes, edges))
    /\ UNCHANGED <<table, overflow_checks, pc, req, query, sql, queries, failed, records>>
    /\ UNCHANGED <<compilerVars, storeVars, graphVars>>

\* The fetch operation of the session merges the nodes it found, which may
\* be none.
SessionMergeNodes ==
    /\ Accepts_Merge(phase)
    /\ resp = NoResp
    /\ \E ns \in {<<>>} \cup {<<node>> : node \in Nodes} :
        /\ HasRoom(merge_nodes(nodes, ns), edges)
        /\ nodes' = merge_nodes(nodes, ns)
    /\ phase' = "Populated"
    /\ UNCHANGED <<merged, before, written, edges, edge_written, conflict>>
    /\ UNCHANGED <<fetchVars, compilerVars, relations, embeddings, snapshotVars>>
    /\ UNCHANGED <<storage, sessions, conn, imported, relation_embeddings>>

\* The fetch operation of the session merges the edges it found, which may
\* be none.
SessionMergeEdges ==
    /\ Accepts_Merge(phase)
    /\ resp = NoResp
    /\ \E es \in {<<>>} \cup {<<e>> : e \in SnapshotEdges} :
        /\ HasRoom(nodes, merge_edges(edges, es))
        /\ edges' = merge_edges(edges, es)
    /\ phase' = "Populated"
    /\ UNCHANGED <<nodes, merged, before, written, edge_written, conflict>>
    /\ UNCHANGED <<fetchVars, compilerVars, relations, embeddings, snapshotVars>>
    /\ UNCHANGED <<storage, sessions, conn, imported, relation_embeddings>>

\* Err(e) => bad_request: the fetch operation fails on storage and the
\* handler answers without get_graph.
SessionFetchFails ==
    /\ phase # "Finalized"
    /\ resp = NoResp
    /\ resp' = BadRequest(QueryError)
    /\ UNCHANGED <<table, overflow_checks, pc, req, query, sql, queries, failed, records>>
    /\ UNCHANGED <<compilerVars, storeVars, graphVars>>

\* Ok(graph) => graph.to_owned().get_graph(None): once the fetch operation
\* has returned, whatever it merged, the Graph is returned as it is and the
\* session is over.
SessionGetGraph ==
    /\ phase = "Populated"
    /\ resp = NoResp
    /\ phase' = "Finalized"
    /\ snap' = to_owned(nodes, edges)
    /\ taken' = [nodes |-> nodes, edges |-> edges]
    /\ UNCHANGED <<touched, storeVars, fetchVars, compilerVars, relations, embeddings>>
    /\ UNCHANGED <<storage, sessions, conn, imported, relation_embeddings>>

\* The snapshot of a session that is over is read again.
SessionRead ==
    /\ phase = "Finalized"
    /\ Len(records) < MaxReads
    /\ records' = Append(records, GetGraphResponse_Ok(snap))
    /\ UNCHANGED <<table, overflow_checks, pc, req, query, sql, queries, failed, resp>>
    /\ UNCHANGED <<compilerVars, storeVars, graphVars>>

\* The request ends: the session and its Graph are dropped.
SessionEnd ==
    /\ phase # "Empty" \/ resp # NoResp
    /\ phase' = "Empty"
    /\ nodes' = <<>>
    /\ edges' = {}
    /\ snap' = NoSnapshot
    /\ taken' = NoSnapshot
    /\ records' = <<>>
    /\ resp' = NoResp
    /\ UNCHANGED <<table, overflow_checks, pc, req, query, sql, queries, failed>>
    /\ UNCHANGED <<merged, before, written, edge_written, conflict, touched>>
    /\ UNCHANGED <<compilerVars, relations, embeddings, storage, sessions, conn, imported, relation_embeddings>>

NextSession ==
    \/ SessionNoIds
    \/ SessionMergeNodes
    \/ SessionMergeEdges
    \/ SessionFetchFails
    \/ SessionGetGraph
    \/ SessionRead
    \/ SessionEnd

SpecSession == InitStore /\ [][NextSession]_vars

\* ------------------------------------------------------------------ claims

\* The request carries a page or a page size.
Paginated == req.page # None \/ req.page_size # None

\* The rows a filter-free, window-free SELECT of the request's statement
\* would return.
FullResult(q) == Ordered(Matching(q.where, table), q.order_by)

\* C1: a call of get_records that returns a response has issued exactly two
\* statements, first the SELECT (with LIMIT/OFFSET exactly when the request
\* is paginated), then a COUNT without LIMIT/OFFSET over the same table and
\* the same WHERE text, and total is the number of rows of the table that
\* text selects, whatever the page window; no call issues more than two.
C1_TwoQueriesOnePredicate ==
    /\ Len(queries) <= 2
    /\ resp.kind = "ok" =>
        /\ Len(queries) = 2
        /\ queries[1].kind = "select"
        /\ queries[2].kind = "count"
        /\ queries[1].paged = Paginated
        /\ ~queries[2].paged
        /\ queries[2].table_name = queries[1].table_name
        /\ queries[2].where = queries[1].where
        /\ queries[1].where = QueryStr(query)
        /\ resp.total = Cardinality({i \in table : Where(queries[1].where, Row(i)).val})

\* A filtered request for page 2 of size 1 whose filter selects two rows.
C1_Witness ==
    /\ resp.kind = "ok"
    /\ query.kind = "some"
    /\ req.page = 2
    /\ req.page_size = 1
    /\ resp.total = 2
    /\ Len(resp.records) = 1

\* C2: a request for page p >= 1 of size k >= 1 returns the rows
\* (p-1)*k+1 .. p*k of the full ordered result, so the pages partition it
\* and every page past the last row is empty.
C2_PagesPartitionTheResult ==
    (resp.kind = "ok" /\ req.page # None /\ req.page >= 1
        /\ req.page_size # None /\ req.page_size >= 1) =>
        resp.records =
            Window(FullResult(queries[1]), req.page_size, (req.page - 1) * req.page_size)

\* C3: a request with page = 0 ends as a bad request without any statement
\* built or issued.
C3_PageZeroRejected ==
    (req # NoReq /\ req.page = 0) =>
        /\ pc = "done"
        /\ resp.kind = "bad_request"
        /\ sql = NoSql
        /\ queries = <<>>

\* C4: without page and page_size the response holds every matching row
\* and reports page 0 and page_size 0, and a response reports (0, 0) only
\* for such a request.
C4_UnpagedSentinel ==
    resp.kind = "ok" =>
        /\ ~Paginated =>
            /\ resp.page = 0
            /\ resp.page_size = 0
            /\ ~queries[1].paged
            /\ resp.records = FullResult(queries[1])
        /\ (resp.page = 0 /\ resp.page_size = 0) => ~Paginated

RECURSIVE LeafValues(_)
LeafValues(q) ==
    IF IsComposeQueryItem(q)
    THEN UNION {LeafValues(q.items[i]) : i \in 1 .. Len(q.items)}
    ELSE {q.value}

RECURSIVE LeafFields(_)
LeafFields(q) ==
    IF IsComposeQueryItem(q)
    THEN UNION {LeafFields(q.items[i]) : i \in 1 .. Len(q.items)}
    ELSE {q.field}

\* The tokens of v occur in s, in a row.
Contains(s, v) ==
    \E i \in 1 .. (Len(s) - Len(v) + 1) : SubSeq(s, i, i + Len(v) - 1) = v

\* C5: no statement issued carries a value of the filter in its text; each
\* value is among the statement's bound parameters.
C5_ValuesAreBound ==
    \A n \in 1 .. Len(queries) :
        query.kind = "some" =>
            \A v \in LeafValues(query.q) :
                /\ ~Contains(queries[n].where, v)
                /\ \E k \in 1 .. Len(queries[n].binds) : queries[n].binds[k] = v

\* C6: a request without filter (query_str absent or empty) that returns a
\* response gets total = the table's row count and, as records, all rows of
\* the table in order, cut to the statement's LIMIT/OFFSET when there is one.
C6_NoFilterSelectsAll ==
    (resp.kind = "ok" /\ req.query_str.kind \in {"absent", "empty"}) =>
        /\ resp.total = Cardinality(table)
        /\ resp.records =
            IF queries[1].paged
            THEN Window(Ordered(table, queries[1].order_by),
                        queries[1].limit, queries[1].offset)
            ELSE Ordered(table, queries[1].order_by)

\* An unfiltered, unpaginated request on a table of three rows.
C6_Witness ==
    /\ resp.kind = "ok"
    /\ req.query_str.kind = "empty"
    /\ ~Paginated
    /\ resp.total = 3
    /\ Len(resp.records) = 3

\* query_str is a non-empty string that is no filter tree.
Malformed(qs) == qs.kind \notin {"absent", "empty"} /\ ~from_str(qs)

\* C7: on every endpoint a request whose query_str is non-empty and does
\* not parse ends at once as a bad request "Failed to parse query string",
\* with no statement built and none issued.
C7_MalformedFilterRejected ==
    (req # NoReq /\ Malformed(req.query_str)) =>
        /\ pc = "done"
        /\ resp = BadRequest(ParseError)
        /\ sql = NoSql
        /\ queries = <<>>

\* A graph endpoint has rejected a JSON value that is no filter tree.
C7_Witness ==
    /\ pc = "done"
    /\ req.ep = "fetch_one_step_linked_nodes"
    /\ req.query_str.kind = "json"
    /\ Malformed(req.query_str)
    /\ resp = BadRequest(ParseError)

\* C8: a filter with a leaf whose field is no column of the table yields no
\* statement: none is built and none is issued.
C8_UnknownFieldRejected ==
    (query.kind = "some" /\ ~(LeafFields(query.q) \subseteq Columns)) =>
        /\ sql = NoSql
        /\ queries = <<>>

\* The text is a predicate the row satisfies.
Satisfies(s, i) == Where(s, Row(i)).ok /\ Where(s, Row(i)).val

\* C9: the compiled text of an AND group is satisfied by a row exactly when
\* the compiled text of every child is, that of an OR group exactly when the
\* compiled text of some child is; a group of one child selects what the
\* child selects.
C9_GroupsCombineTheirChildren ==
    (tree # NoQuery /\ text # <<>> /\ IsComposeQueryItem(tree.q)) =>
        \A i \in table :
            Satisfies(text, i) <=>
                IF tree.q.operator = "and"
                THEN \A k \in 1 .. Len(tree.q.items) : Satisfies(format(tree.q.items[k]), i)
                ELSE \E k \in 1 .. Len(tree.q.items) : Satisfies(format(tree.q.items[k]), i)

\* The ids of the store's nodes, position by position.
StoredAt(id) == {k \in 1 .. Len(nodes) : nodes[k].id = id}

\* C10: after any sequence of merge_nodes calls the store holds at most one
\* node per id; a call whose nodes are all in the store already, with the
\* same attributes, leaves the store as it was; and the node stored for an
\* id carries the attributes of the most recent call that contained the id.
C10_MergeNodesLastWriteWins ==
    /\ \A id \in NodeIds : Cardinality(StoredAt(id)) <= 1
    /\ (\A k \in 1 .. Len(merged) : \E j \in 1 .. Len(before) : before[j] = merged[k])
            => nodes = before
    /\ \A id \in NodeIds :
        IF written[id] = Unwritten THEN StoredAt(id) = {}
        ELSE \E k \in StoredAt(id) : nodes[k].label = written[id]

\* A call has replaced the attributes of a stored node and added another
\* node; the store holds one node for each of the two ids.
C10_Witness ==
    /\ Len(before) = 1
    /\ Len(merged) = 2
    /\ merged[1].id = before[1].id
    /\ merged[1].label # before[1].label
    /\ merged[2].id # before[1].id
    /\ Len(nodes) = 2
    /\ nodes[1] = merged[1]

\* C11: after any sequence of merge_edges calls the store holds at most one
\* edge per (source_id, target_id, relation_type); every triple a call has
\* given is stored, so edges that differ in a component stay apart; and the
\* edge stored for a triple carries the weight of the most recent call that
\* contained the triple.
C11_MergeEdgesByTriple ==
    /\ \A x, y \in edges :
        (x.source_id = y.source_id /\ x.target_id = y.target_id
            /\ x.relation_type = y.relation_type) => x = y
    /\ \A t \in Triples :
        LET stored == {x \in edges : <<x.source_id, x.target_id, x.relation_type>> = t}
        IN IF edge_written[t] = NoWeight THEN stored = {}
           ELSE \E x \in stored : x.weight = edge_written[t]

\* The store holds two edges between the same nodes that differ in the
\* relation type only, and the last call has changed the weight of one.
C11_Witness ==
    /\ conflict
    /\ \E x, y \in edges :
        /\ x.source_id = y.source_id
        /\ x.target_id = y.target_id
        /\ x.relation_type # y.relation_type

\* What a reader of the returned Graph sees.
SnapshotNodes == IF snap.shared THEN nodes ELSE snap.nodes

SnapshotEdgeSet == IF snap.shared THEN edges ELSE snap.edges

\* C12: the Graph a snapshot returned keeps the nodes and edges the store
\* had when it was taken, whatever is merged into the store afterwards; the
\* store itself is as it was until the next merge, and a merge is still
\* possible.
C12_SnapshotIsIndependent ==
    snap # NoSnapshot =>
        /\ SnapshotNodes = taken.nodes
        /\ SnapshotEdgeSet = taken.edges
        /\ ~touched => (nodes = taken.nodes /\ edges = taken.edges)
        /\ ENABLED (MergeNodeLive \/ MergeEdgeLive)

\* A snapshot of a store with one node was taken, and a merge has since
\* replaced the attributes of that node in the store.
C12_Witness ==
    /\ snap # NoSnapshot
    /\ touched
    /\ Len(taken.nodes) = 1
    /\ Len(nodes) = 1
    /\ nodes[1].id = taken.nodes[1].id
    /\ nodes[1].label # taken.nodes[1].label

\* The ids of the request, and of the nodes and edges of its response.
RequestIds == Elements(req.node_ids)

ResponseNodeIds == {resp.nodes[k].id : k \in 1 .. Len(resp.nodes)}

\* C13: the graph auto_connect_nodes(ids) returns has every node id in ids
\* and both ends of every edge in ids, and its edges are exactly the
\* relations of storage with both ends in ids.
C13_AutoConnectStaysInside ==
    (req.ep = "fetch_edges_auto_connect_nodes" /\ resp.kind = "graph") =>
        /\ ResponseNodeIds \subseteq RequestIds
        /\ \A e \in resp.edges : e.source_id \in RequestIds /\ e.target_id \in RequestIds
        /\ resp.edges = {Relation(i) : i \in {j \in relations :
                            /\ Relation(j).source_id \in RequestIds
                            /\ Relation(j).target_id \in RequestIds}}

\* Two ids were given; storage holds a relation between them, which is
\* returned, and a relation that leaves them, which is not.
C13_Witness ==
    /\ req.ep = "fetch_edges_auto_connect_nodes"
    /\ resp.kind = "graph"
    /\ req.node_ids = <<IdOf(1), IdOf(2)>>
    /\ relations = RowIds
    /\ Relation(2) \in resp.edges
    /\ Relation(3) \notin resp.edges

\* C14: auto_connect_nodes(ids) with fewer than two ids returns no edge,
\* whatever storage holds.
C14_FewerThanTwoIdsNoEdges ==
    (req.ep = "fetch_edges_auto_connect_nodes" /\ resp.kind = "graph"
        /\ Len(req.node_ids) < 2) => resp.edges = {}

\* C15: with the empty node_ids string both endpoints answer with the empty
\* graph, as a success, and no statement is issued to storage.
C15_EmptyIdsNoQuery ==
    (req # NoReq /\ req.node_ids = <<>>) =>
        /\ pc = "done"
        /\ resp = GetGraphResponse_Ok(to_owned(<<>>, {}))
        /\ queries = <<>>

\* Both tables hold rows and the auto-connect endpoint was given no id.
C15_Witness ==
    /\ pc = "done"
    /\ req.ep = "fetch_edges_auto_connect_nodes"
    /\ req.node_ids = <<>>
    /\ table = RowIds
    /\ relations = RowIds
    /\ resp.kind = "graph"

\* C16: fetch_nodes_by_ids(ids) fails only when storage fails, and the nodes
\* it returns are exactly the entities whose id is in ids: an id without
\* entity is left out, and nothing outside ids comes back.
C16_NodesAreTheIdsThatExist ==
    (req.ep = "fetch_nodes" /\ pc = "done" /\ NodeIdsQuery_new(req.node_ids)) =>
        /\ resp.kind = "graph" \/ (resp = BadRequest(QueryError) /\ queries # <<>>)
        /\ resp.kind = "graph" =>
            /\ ResponseNodeIds = {IdOf(i) : i \in {j \in table : IdOf(j) \in RequestIds}}
            /\ Len(resp.nodes) = Cardinality(ResponseNodeIds)
            /\ resp.edges = {}

\* Two ids were given, one of an entity and one of none; one node is returned.
C16_Witness ==
    /\ req.ep = "fetch_nodes"
    /\ resp.kind = "graph"
    /\ req.node_ids = <<IdOf(1), IdOf(2)>>
    /\ table = {1}
    /\ Len(resp.nodes) = 1
    /\ resp.nodes[1].id = IdOf(1)

\* C17: with storage unchanged, the store that took the result of
\* fetch_nodes_by_ids(ids) twice holds the nodes and edges it held after
\* the first call.
C17_FetchTwiceIsFetchOnce ==
    pc = "twice" => (nodes = before /\ edges = {})

\* Two ids of entities were looked up twice; the store holds two nodes.
C17_Witness ==
    /\ pc = "twice"
    /\ Len(req.node_ids) = 2
    /\ Len(nodes) = 2
    /\ Len(queries) = 2

\* The rows of the relation table in the page the request asks for.
RequestedPage ==
    Elements(Window(Ordered(Matching(QueryStr(query), relations), ""),
                    req.page_size, (req.page - 1) * req.page_size))

\* C18: fetch_linked_nodes(filter, page, page_size) returns at most
\* page_size edges, each a relation the filter selects that lies in the
\* page asked for; every node returned is at an end of one of these edges,
\* and there are at most 2 * page_size nodes.
C18_LinkedNodesWithinThePage ==
    (req.ep = "fetch_one_step_linked_nodes" /\ resp.kind = "graph"
        /\ req.page # None /\ req.page_size # None) =>
        /\ Cardinality(resp.edges) <= req.page_size
        /\ resp.edges \subseteq {Relation(i) : i \in RequestedPage}
        /\ \A k \in 1 .. Len(resp.nodes) :
            \E e \in resp.edges : resp.nodes[k].id \in {e.source_id, e.target_id}
        /\ Len(resp.nodes) <= 2 * req.page_size

\* The neighbours in the response: its nodes other than the origin.
ResponseNeighbours == ResponseNodeIds \ {req.node_id}

\* The Graph operation of the request was called and storage ran every
\* statement it issued.
SimilarityAnswered ==
    /\ pc = "done"
    /\ req.ep = "fetch_similarity_nodes"
    /\ queries # <<>>
    /\ failed = <<>>

\* The graph the claim describes: the origin node, at most topk neighbour
\* nodes (at most the default when topk is absent), and exactly one edge
\* per neighbour, from node_id to the neighbour, weighted with the score.
OriginAndNeighbours ==
    /\ resp.kind = "graph"
    /\ req.node_id \in ResponseNodeIds
    /\ Cardinality(ResponseNeighbours) <= TopkOf(req.topk)
    /\ Len(resp.nodes) = Cardinality(ResponseNodeIds)
    /\ resp.edges = {SimilarityEdge(RowOf(req.node_id), RowOf(n)) : n \in ResponseNeighbours}

\* C19 as stated: fetch_similarity_nodes(node_id, filter, topk) returns a
\* graph that holds the origin node and at most topk neighbour nodes (at
\* most the default 10 when topk is absent), with exactly one edge per
\* neighbour, from node_id to the neighbour, weighted with the score.
C19_AlwaysHoldsTheOrigin == SimilarityAnswered => OriginAndNeighbours

\* C19: when node_id is in the neighbour source or exists as an entity,
\* fetch_similarity_nodes(node_id, filter, topk) returns a graph that holds
\* the origin node and at most topk neighbour nodes (at most the default 10
\* when topk is absent), with exactly one edge per neighbour, from node_id
\* to the neighbour, weighted with the similarity score.
C19_SimilarityWithinTopk ==
    (SimilarityAnswered /\ RowOf(req.node_id) \in embeddings \cup table)
    => OriginAndNeighbours

\* The source holds more neighbours of the origin than the default topk,
\* topk is absent, and the graph holds the origin, DefaultTopk neighbours
\* and the edges to them.
C19_Witness ==
    /\ SimilarityAnswered
    /\ resp.kind = "graph"
    /\ req.topk = None
    /\ req.query_str = [kind |-> "absent"]
    /\ RowOf(req.node_id) \in embeddings
    /\ Cardinality(embeddings \ {RowOf(req.node_id)}) > DefaultTopk
    /\ Len(resp.nodes) = DefaultTopk + 1
    /\ Cardinality(resp.edges) = DefaultTopk

\* C20: when node_id is not in the neighbour source, fetch_similarity_nodes
\* succeeds: it answers with a graph, not an error, without edges, whose
\* node set is the origin alone when it exists as an entity, and empty
\* otherwise.
C20_UnknownOriginIsNoError ==
    (SimilarityAnswered /\ RowOf(req.node_id) \notin embeddings)
    => /\ resp.kind = "graph"
       /\ resp.edges = {}
       /\ ResponseNodeIds = (IF RowOf(req.node_id) \in table THEN {req.node_id} ELSE {})
       /\ Len(resp.nodes) = Cardinality(ResponseNodeIds)

\* The source holds other embeddings but not the origin's, the origin is no
\* entity, and the answer is the empty graph.
C20_Witness ==
    /\ SimilarityAnswered
    /\ resp.kind = "graph"
    /\ embeddings # {}
    /\ RowOf(req.node_id) \notin embeddings
    /\ RowOf(req.node_id) \notin table
    /\ resp.nodes = <<>>
    /\ resp.edges = {}

\* How many times the statement was issued.
Attempts(q) == Cardinality({n \in 1 .. Len(queries) : queries[n] = q})

\* C22: when a storage query of get_records or of an assembly operation
\* fails, the operation ends there with an error that carries no records and
\* no graph, the failed query was issued exactly once, and a response with
\* records or a graph is returned only when no query of the operation failed.
C22_FailureIsSurfacedOnce ==
    /\ failed # <<>> =>
        /\ pc = "done"
        /\ resp.kind = "bad_request"
        /\ DOMAIN resp = {"kind", "err"}
        /\ Len(failed) = 1
        /\ failed[1] = queries[Len(queries)]
        /\ Attempts(failed[1]) = 1
    /\ resp.kind \in {"ok", "graph"} => failed = <<>>

\* The first query of an assembly returned relations, the second failed,
\* and the answer is the error.
C22_Witness ==
    /\ pc = "done"
    /\ req.ep = "fetch_one_step_linked_nodes"
    /\ Len(queries) = 2
    /\ records # <<>>
    /\ failed = <<queries[2]>>
    /\ resp.kind = "bad_request"

\* The page and page size get_records puts into LIMIT and OFFSET.
UsedPage == IF req.page = None THEN DefaultPage ELSE req.page

UsedPageSize == IF req.page_size = None THEN DefaultPageSize ELSE req.page_size

\* C27: when a request carries page or page_size and get_records answers,
\* the page and page_size of the response are the values the window was
\* built from (LIMIT page_size OFFSET (page - 1) * page_size), the defaults
\* 1 and 10 included for the one that was omitted.
C27_ResponseEchoesTheWindow ==
    (pc = "done" /\ resp.kind = "ok" /\ Paginated)
    => /\ queries[1].limit = UsedPageSize
       /\ queries[1].offset = (((UsedPage - 1) % Modulus) * UsedPageSize) % Modulus
       /\ resp.page = UsedPage
       /\ resp.page_size = UsedPageSize

\* C25: a delete or an update that addresses a row that does not exist is
\* answered NotFound and leaves storage unchanged, and NotFound is answered
\* only for a missing row: never after a storage failure, never for a
\* request that failed its checks.
C25_NotFoundMeansMissingRow ==
    [][/\ (/\ pc = "write"
           /\ sql.kind \in {"update", "delete"}
           /\ sql.row \notin DOMAIN storage[sql.table_name].rows
           /\ failed' = failed)
          => (resp'.kind = "not_found" /\ storage' = storage)
       /\ (resp'.kind = "not_found" /\ resp.kind # "not_found")
          => /\ pc = "write"
             /\ sql.row \notin DOMAIN storage[sql.table_name].rows
             /\ failed' = failed]_vars

\* C28: every response of get_records has at most total records, also when
\* other requests insert or delete rows between its two queries.
C28_RecordsWithinTotal ==
    (pc = "done" /\ resp.kind = "ok") => Len(resp.records) <= resp.total

\* The request is a create or an update whose id is negative or malformed
\* or whose payload fails validation.
Unacceptable(r) ==
    /\ r.ep \in {"post_curated_knowledge", "put_curated_knowledge",
                 "post_subgraph", "put_subgraph"}
    /\ \/ r.payload = "invalid"
       \/ r.ep = "put_curated_knowledge" /\ r.id < 0
       \/ r.ep = "put_subgraph" /\ r.id = BadId

\* C29: on the create and update endpoints a request whose id or payload
\* fails its check is answered bad_request, no statement is issued for it
\* and storage stays as it was.
C29_WriteAfterChecks ==
    [][Unacceptable(req')
       => /\ queries' = <<>>
          /\ storage' = storage
          /\ pc' = "done"
          /\ resp'.kind = "bad_request"]_vars

\* An update of an existing row with a payload that fails validation was
\* answered bad_request and the row holds what it held.
C29_Witness ==
    /\ pc = "done"
    /\ req.ep = "put_curated_knowledge"
    /\ req.payload = "invalid"
    /\ req.id \in DOMAIN storage["biomedgps_knowledge_curation"].rows
    /\ storage["biomedgps_knowledge_curation"].rows[req.id] = StoredRow(req.id, "v1", "v1")
    /\ queries = <<>>
    /\ resp.kind = "bad_request"

C30_NewNeverPanics ==
    (pc = "done" /\ req.ep = "LlmMessage::new")
    => /\ resp.kind # "panic"
       /\ IF req.category \in {"node_summary", "edge_summary", "custom_question"}
          THEN /\ resp.kind = "llm_message"
               /\ PromptTemplateCategory_into(resp.prompt_template_category) = req.category
          ELSE resp.kind = "err"

\* A call with a string that is no category returned Err.
C30_Witness ==
    /\ pc = "done"
    /\ req.ep = "LlmMessage::new"
    /\ req.category = "summary"
    /\ resp.kind = "err"

\* C21: an assembly session moves only from Empty to Populated to
\* Finalized: every merge leaves it Populated, get_graph leaves it
\* Finalized, a Finalized session takes no merge or fetch, and every read of
\* its snapshot returns the graph get_graph returned.
C21_SessionPhases ==
    [][/\ phase' # phase =>
            \/ phase \in {"Empty", "Populated"} /\ phase' = "Populated"
            \/ phase = "Populated" /\ phase' = "Finalized"
            \/ phase' = "Empty" /\ nodes' = <<>> /\ edges' = {}
       /\ (nodes' # nodes \/ edges' # edges) =>
            \/ phase # "Finalized" /\ phase' = "Populated"
            \/ phase' = "Empty"
       /\ (snap' # snap /\ snap' # NoSnapshot) =>
            (phase = "Populated" /\ phase' = "Finalized" /\ snap' = to_owned(nodes, edges))
       /\ \A k \in 1 .. Len(records') : records'[k] = GetGraphResponse_Ok(snap)]_vars

\* A session that merged a node and an edge is over and its snapshot was
\* read twice.
C21_Witness ==
    /\ phase = "Finalized"
    /\ nodes # <<>>
    /\ edges # {}
    /\ Len(records) = 2
    /\ snap = to_owned(nodes, edges)

\* The graph a request for the ids returns when no other request runs.
Alone(ids) ==
    GetGraphResponse_Ok(to_owned(merge_nodes(<<>>, EntityNodes(ids, table)),
                                 merge_edges({}, ConnectingEdges(ids, relations))))

\* C23: whatever the interleaving of concurrent graph requests over
\* unchanged storage, the graph a request returns holds the nodes and edges
\* that request merged and no others: it is the graph the request returns
\* when it runs alone.
C23_RequestsDoNotShareAGraph ==
    \A r \in Requests :
        (sessions[r].pc = "done" /\ sessions[r].resp.kind = "graph")
        => sessions[r].resp = Alone(sessions[r].ids)

\* Two requests for different ids are both answered, each with its own
\* nodes, while the other has not yet ended.
C23_Witness ==
    /\ sessions[1].pc = "done"
    /\ sessions[2].pc = "done"
    /\ sessions[1].resp.kind = "graph"
    /\ sessions[2].resp.kind = "graph"
    /\ sessions[1].resp.nodes # <<>>
    /\ sessions[2].resp.nodes # <<>>
    /\ sessions[1].resp.edges # sessions[2].resp.edges
    /\ sessions[1].resp.nodes # sessions[2].resp.nodes

\* C24: at most max_connections queries are in flight, and a query issued
\* while the pool is exhausted waits instead of failing and eventually
\* runs, provided the running queries complete.
C24_PoolQueuesInsteadOfFailing ==
    /\ [](Cardinality(InFlight) <= max_connections)
    /\ [](\A c \in Clients : conn[c] # "failed")
    /\ \A c \in Clients : (conn[c] = "waiting") ~> (conn[c] = "running")

====
